---- MODULE Spec2Model ----
(***************************************************************************)
(* NexusPM: organizations, subscriptions, memberships, workspaces and the  *)
(* task dependency graph, modelled from the Django models and their        *)
(* post_save receivers.  The database runs in Django's default autocommit  *)
(* mode (no transaction.atomic anywhere in the applications): a row that   *)
(* was inserted stays even when a later receiver raises.                   *)
(***************************************************************************)
EXTENDS Integers, Sequences, FiniteSets, TLC

\* ---------------------------------------------------------------- bounds
MaxWorkspaces == 3
MaxSubs == 2
MaxDeps == 2
MaxProjectMembers == 4
MaxTime == 3

\* ------------------------------------------------------------- universes
Users == {"u1", "u2"}
Orgs == {"o1", "o2"}
WS == 1..MaxWorkspaces
Projects == {"p1", "p2"}
Tasks == {"t1", "t2", "t3"}

\* ------------------------------------------------- enumerations (choices)
OrgRole == {"owner", "admin", "member", "viewer"}
WsRole == {"admin", "manager", "member", "contributor", "viewer"}
SubStatus == {"active", "trialing", "past_due", "cancelled", "unpaid"}
TaskStatus == {"todo", "in_progress", "in_review", "blocked", "completed", "verified"}
DependencyType == {"blocks", "subtask", "related"}
PlanType == {"free", "starter", "professional"}

\* Roles and statuses the operations below are called with.
OrgRoleIn == {"admin", "member"}
WsRoleIn == {"admin", "member"}

\* The plan catalog rows (SubscriptionPlan), keyed by plan_type.
PlanLimits ==
  [pt \in PlanType |->
     IF pt = "free"
       THEN [max_workspaces |-> 2, max_users |-> 2, max_storage_gb |-> 0,
             max_projects_per_workspace |-> 2]
     ELSE IF pt = "starter"
       THEN [max_workspaces |-> 3, max_users |-> 3, max_storage_gb |-> 1,
             max_projects_per_workspace |-> 3]
       ELSE [max_workspaces |-> 4, max_users |-> 4, max_storage_gb |-> 2,
             max_projects_per_workspace |-> 4]]

VARIABLES
  plans,        \* plan types present in the SubscriptionPlan catalog
  orgs,         \* Organization rows, keyed by id
  subs,         \* Subscription rows in primary-key (insertion) order
  org_members,  \* OrganizationMembership rows, keyed by <<user, organization>>
  workspaces,   \* Workspace rows, keyed by id
  ws_members,   \* WorkspaceMembership rows, keyed by <<user, workspace>>
  projects,     \* Project rows, keyed by id
  tasks,        \* Task rows, keyed by id
  deps,         \* TaskDependency rows: <<from_task, to_task, dependency_type>>
  proj_members, \* ProjectMembership rows in primary-key (insertion) order
  inflight,     \* requests between their validation and their save()
  last          \* the last call and how it returned

vars == <<plans, orgs, subs, org_members, workspaces, ws_members, projects, tasks, deps,
          proj_members, inflight, last>>

orgVars == <<plans, orgs, subs>>
taskVars == <<projects, tasks, deps, proj_members>>

NoCall == [op |-> "none", result |-> "none", org |-> "none", ws |-> 0,
           user |-> "none", task |-> "none", task2 |-> "none", kind |-> "none",
           project |-> "none", value |-> 0, wrote |-> FALSE]

Call(op, result, o, w, u) ==
  [op |-> op, result |-> result, org |-> o, ws |-> w, user |-> u,
   task |-> "none", task2 |-> "none", kind |-> "none",
   project |-> "none", value |-> 0, wrote |-> FALSE]

TaskCall(op, result, t, t2, k) ==
  [op |-> op, result |-> result, org |-> "none", ws |-> 0, user |-> "none",
   task |-> t, task2 |-> t2, kind |-> k,
   project |-> "none", value |-> 0, wrote |-> FALSE]

\* A call on a project: value is what it returned (a count or a percentage),
\* wrote whether it wrote the project row.
ProjectCall(op, result, p, w, u, k, value, wrote) ==
  [op |-> op, result |-> result, org |-> "none", ws |-> w, user |-> u,
   task |-> "none", task2 |-> "none", kind |-> k,
   project |-> p, value |-> value, wrote |-> wrote]

Min(S) == CHOOSE x \in S : \A y \in S : x <= y

\* ------------------------------------------- Subscription & limits authority

ActiveSubStatus == {"active", "trialing"}

\* Mutant: only ACTIVE subscriptions count as current.
current_subscription_active_only(S, o) ==
  LET mine == {i \in 1..Len(S) : S[i].org = o /\ S[i].status = "active"}
  IN IF mine = {} THEN 0 ELSE Min(mine)

\* Organization.current_subscription: subscriptions.filter(status__in=[ACTIVE,
\* TRIALING]).first(); first() on the unordered queryset orders by primary key.
\* The result is the row's position in subs, 0 for None.
current_subscription(S, o) ==
  LET mine == {i \in 1..Len(S) : S[i].org = o /\ S[i].status \in ActiveSubStatus}
  IN IF mine = {} THEN 0 ELSE Min(mine)

\* Organization.current_plan: the plan type of the current subscription, "none" for None.
current_plan(S, o) ==
  LET subscription == current_subscription(S, o)
  IN IF subscription # 0 THEN S[subscription].plan ELSE "none"

get_usage_limits(S, o) ==
  LET plan == current_plan(S, o)
  IN IF plan = "none"
       THEN [max_workspaces |-> 1, max_users |-> 1, max_storage_gb |-> 0,
             max_projects_per_workspace |-> 1]
       ELSE [max_workspaces |-> PlanLimits[plan].max_workspaces,
             max_users |-> PlanLimits[plan].max_users,
             max_storage_gb |-> PlanLimits[plan].max_storage_gb,
             max_projects_per_workspace |-> PlanLimits[plan].max_projects_per_workspace]

\* workspaces.filter(deleted_at__isnull=True).count()
WorkspaceCount(W, o) ==
  Cardinality({w \in DOMAIN W : W[w].organization = o /\ ~W[w].deleted})

\* memberships.filter(is_active=True).count() of an organization
OrgActiveMembers(M, o) ==
  Cardinality({k \in DOMAIN M : k[2] = o /\ M[k].is_active})

check_usage_limit(S, W, M, o, limit_type) ==
  LET limits == get_usage_limits(S, o)
  IN CASE limit_type = "workspaces" -> WorkspaceCount(W, o) < limits.max_workspaces
       [] limit_type = "users" -> OrgActiveMembers(M, o) < limits.max_users
       [] OTHER -> TRUE

\* Mutant: the filter without is_active=True.
HasOrgMembership_any(M, u, o) == <<u, o>> \in DOMAIN M

\* user.organization_memberships.filter(organization=o, is_active=True): the
\* pair is unique, so the queryset holds at most one row.
HasActiveOrgMembership(M, u, o) ==
  <<u, o>> \in DOMAIN M /\ M[<<u, o>>].is_active

\* The role of that row, "none" when .first() is None.
ActiveOrgRole(M, u, o) ==
  IF HasActiveOrgMembership(M, u, o) THEN M[<<u, o>>].role ELSE "none"

\* subscription_changed_handler: an ACTIVE subscription re-activates its
\* organization; every other status only logs.
subscription_changed_handler(O, sub) ==
  IF sub.status = "active" /\ O[sub.org].status # "active"
    THEN [O EXCEPT ![sub.org].status = "active"]
    ELSE O

\* The stripe_subscription_id column is unique=True, blank=True: 0 stands for
\* the blank default '', n > 0 for an id the caller supplied.
StripeIdTaken(S, sid) == \E i \in 1..Len(S) : S[i].stripe_id = sid

\* A Subscription row; trial_days is trial_end - trial_start in days, 0 for a
\* subscription without a trial window.
NewSubscription(o, plan, status, sid) ==
  [org |-> o, plan |-> plan, status |-> status, stripe_id |-> sid,
   cancel_at_period_end |-> FALSE, trial_days |-> 0]

\* The trial Subscription of organization_created_handler: FREE plan,
\* TRIALING, trial_end = now + 14 days, stripe_subscription_id left blank.
TrialDays == 14

TrialSubscription(o) ==
  [NewSubscription(o, "free", "trialing", 0) EXCEPT !.trial_days = TrialDays]

\* Mutant: the missing FREE plan is not caught.
create_trial_subscription_uncaught(P, S) ==
  IF "free" \notin P THEN "DoesNotExist"
  ELSE IF StripeIdTaken(S, 0) THEN "IntegrityError"
  ELSE "created"

\* Step 1 of organization_created_handler: how the creation of the trial
\* Subscription ends.  SubscriptionPlan.DoesNotExist is caught and logged; the
\* IntegrityError of a second blank stripe_subscription_id is not.
create_trial_subscription(P, S) ==
  IF "free" \notin P THEN "skipped"
  ELSE IF StripeIdTaken(S, 0) THEN "IntegrityError"
  ELSE "created"

\* ------------------------------------------------------------------ Slugs
\* A name or a slug is a sequence of one-character strings.

\* str.lower() on the characters the names below are written with.
Lower(c) == IF c = "A" THEN "a" ELSE c

\* [\w\s-]: the characters slugify keeps.
SlugKeeps(c) == c \in {"a", "1", "_", " ", "-"}

\* re.sub(r"[-\s]+", "-", value): every run of hyphens and spaces becomes one
\* hyphen.
RECURSIVE CollapseRuns(_)
CollapseRuns(s) ==
  IF s = << >> THEN << >>
  ELSE IF Head(s) \in {"-", " "}
         THEN IF Len(s) > 1 /\ s[2] \in {"-", " "}
                THEN CollapseRuns(Tail(s))
                ELSE <<"-">> \o CollapseRuns(Tail(s))
         ELSE <<Head(s)>> \o CollapseRuns(Tail(s))

\* str.strip("-_")
RECURSIVE StripLeft(_)
StripLeft(s) ==
  IF s # << >> /\ Head(s) \in {"-", "_"} THEN StripLeft(Tail(s)) ELSE s

RECURSIVE StripRight(_)
StripRight(s) ==
  IF s # << >> /\ s[Len(s)] \in {"-", "_"}
    THEN StripRight(SubSeq(s, 1, Len(s) - 1))
    ELSE s

\* django.utils.text.slugify(name), as called by the save() methods
slugify(name) ==
  LET lowered == [i \in 1..Len(name) |-> Lower(name[i])]
      kept == SelectSeq(lowered, SlugKeeps)
  IN StripRight(StripLeft(CollapseRuns(kept)))

\* str(counter) inside the f-string
RECURSIVE Decimal(_)
Decimal(n) ==
  IF n < 10 THEN <<ToString(n)>>
            ELSE Decimal(n \div 10) \o <<ToString(n % 10)>>

\* The while loop of save(): f"{original_slug}-{counter}" with counter = 1, 2,
\* ... until no other row of the scope has the slug.
RECURSIVE slug_with_counter(_, _, _)
slug_with_counter(taken, original_slug, counter) ==
  LET candidate == original_slug \o <<"-">> \o Decimal(counter)
  IN IF candidate \in taken
       THEN slug_with_counter(taken, original_slug, counter + 1)
       ELSE candidate

generate_slug_without_loop(taken, name) == slugify(name)

\* `if not self.slug:` branch of Organization.save / Workspace.save, for an
\* instance created without a slug; taken is the set of slugs of the other
\* rows in the scope of the uniqueness rule.
generate_slug(taken, name) ==
  IF slugify(name) \in taken
    THEN slug_with_counter(taken, slugify(name), 1)
    ELSE slugify(name)

\* Organization.objects.filter(slug=...): the slugs of all organizations
OrganizationSlugs(O) == {O[o].slug : o \in DOMAIN O}

\* Workspace.objects.filter(organization=..., slug=...): the slugs of the
\* organization's workspaces
WorkspaceSlugs(W, o) == {W[w].slug : w \in {x \in DOMAIN W : W[x].organization = o}}

\* The names given to organizations and workspaces where the slug is not the
\* subject: "A" for o1 and for every workspace, "a 1" for o2.
OrgNameIn(o) == IF o = "o1" THEN <<"A">> ELSE <<"a", " ", "1">>

WorkspaceNameIn == <<"A">>

\* Organization.objects.create(name=..., owner=..., settings=...): save() with
\* its slug generation, followed by organization_created_handler.  given is
\* the settings blob the caller passed ("empty" for the default dict()).
OrganizationCreate(o, owner, given, name) ==
  /\ o \notin DOMAIN orgs
  /\ LET row == [owner |-> owner, status |-> "active", deleted |-> FALSE,
                 settings |-> given,
                 slug |-> generate_slug(OrganizationSlugs(orgs), name)]
         inserted == orgs @@ (o :> row)
         outcome == create_trial_subscription(plans, subs)
         withSettings ==
           IF given = "empty" THEN [inserted EXCEPT ![o].settings = "default"]
                              ELSE inserted
     IN IF outcome \notin {"created", "skipped"}
          THEN \* the exception leaves the receiver; the organization row is
               \* already stored
               /\ orgs' = inserted
               /\ UNCHANGED <<subs, org_members>>
               /\ last' = Call("OrganizationCreate", outcome, o, 0, owner)
          ELSE /\ subs' = IF outcome = "created"
                            THEN Append(subs, TrialSubscription(o))
                            ELSE subs
               /\ org_members' = org_members @@
                    (<<owner, o>> :> [role |-> "owner", is_active |-> TRUE])
               /\ orgs' = withSettings
               /\ last' = Call("OrganizationCreate", "ok", o, 0, owner)
  /\ UNCHANGED <<inflight, plans, workspaces, ws_members, taskVars>>

\* Organization.soft_delete
OrganizationSoftDelete(o) ==
  /\ o \in DOMAIN orgs
  /\ orgs' = [orgs EXCEPT ![o].deleted = TRUE, ![o].status = "cancelled"]
  /\ last' = Call("OrganizationSoftDelete", "ok", o, 0, "none")
  /\ UNCHANGED <<inflight, plans, subs, org_members, workspaces, ws_members, taskVars>>

\* Subscription.objects.create(...) by a caller (billing), then
\* subscription_changed_handler.
SubscriptionCreate(o, plan, status, sid) ==
  /\ o \in DOMAIN orgs
  /\ plan \in plans
  /\ Len(subs) < MaxSubs
  /\ IF StripeIdTaken(subs, sid)
       THEN /\ last' = Call("SubscriptionCreate", "IntegrityError", o, 0, "none")
            /\ UNCHANGED <<subs, orgs>>
       ELSE LET sub == NewSubscription(o, plan, status, sid)
            IN /\ subs' = Append(subs, sub)
               /\ orgs' = subscription_changed_handler(orgs, sub)
               /\ last' = Call("SubscriptionCreate", "ok", o, 0, "none")
  /\ UNCHANGED <<inflight, plans, org_members, workspaces, ws_members, taskVars>>

\* subscription.status = status; subscription.save()
SubscriptionSave(i, status) ==
  /\ i \in 1..Len(subs)
  /\ subs' = [subs EXCEPT ![i].status = status]
  /\ orgs' = subscription_changed_handler(orgs, subs'[i])
  /\ last' = Call("SubscriptionSave", "ok", subs[i].org, 0, "none")
  /\ UNCHANGED <<inflight, plans, org_members, workspaces, ws_members, taskVars>>

\* Subscription.cancel(at_period_end)
SubscriptionCancel(i, at_period_end) ==
  /\ i \in 1..Len(subs)
  /\ subs' = IF at_period_end
               THEN [subs EXCEPT ![i].cancel_at_period_end = TRUE]
               ELSE [subs EXCEPT ![i].status = "cancelled"]
  /\ orgs' = subscription_changed_handler(orgs, subs'[i])
  /\ last' = Call("SubscriptionCancel", "ok", subs[i].org, 0, "none")
  /\ UNCHANGED <<inflight, plans, org_members, workspaces, ws_members, taskVars>>

\* ------------------------------------------------------ Membership ledger

\* memberships.filter(is_active=True).count() of a workspace
WsActiveMembers(M, w) ==
  Cardinality({k \in DOMAIN M : k[2] = w /\ M[k].is_active})

\* Mutant: clean() that never rejects.
WorkspaceMembership_clean_skipped(OM, u, o) == "ok"

\* WorkspaceMembership.clean: the user needs an active OrganizationMembership
\* in the workspace's organization.
WorkspaceMembership_clean(OM, u, o) ==
  IF HasActiveOrgMembership(OM, u, o) THEN "ok" ELSE "ValidationError"

\* Mutant: the count is refreshed on an activation change only, not for a new
\* row.
workspace_membership_changed_handler_updates_only(W, M, w, created, has_prev, prev, is_active) ==
  IF has_prev /\ prev # is_active
    THEN [W EXCEPT ![w].member_count = WsActiveMembers(M, w)]
    ELSE W

\* workspace_membership_changed_handler then track_membership_changes, run on
\* post_save of the membership <<u, w>>.  has_prev: the instance carries
\* _previous_is_active (= prev), left by an earlier save of the same instance;
\* an instance that was never saved in this process has none.  M is the table
\* after the write.
workspace_membership_changed_handler(W, M, w, created, has_prev, prev, is_active) ==
  IF created \/ (has_prev /\ prev # is_active)
    THEN [W EXCEPT ![w].member_count = WsActiveMembers(M, w)]
    ELSE W

\* Mutant: an active workspace member is let in before the organization
\* membership is looked at.
can_user_access_member_first(OM, W, M, w, u) ==
  LET role == ActiveOrgRole(OM, u, W[w].organization)
  IN IF <<u, w>> \in DOMAIN M /\ M[<<u, w>>].is_active THEN TRUE
     ELSE IF role = "none" THEN FALSE
     ELSE IF role \in {"owner", "admin"} THEN TRUE
     ELSE ~W[w].is_private

\* Workspace.can_user_access
can_user_access(OM, W, M, w, u) ==
  LET role == ActiveOrgRole(OM, u, W[w].organization)
  IN IF role = "none" THEN FALSE
     ELSE IF role \in {"owner", "admin"} THEN TRUE
     ELSE IF W[w].is_private
       THEN <<u, w>> \in DOMAIN M /\ M[<<u, w>>].is_active
       ELSE TRUE

\* Mutant: the organization membership is read without the is_active filter.
effective_role_any_membership(OM, W, M, u, w) ==
  LET key == <<u, W[w].organization>>
  IN IF key \in DOMAIN OM /\ OM[key].role \in {"owner", "admin"}
       THEN "admin"
       ELSE M[<<u, w>>].role

\* WorkspaceMembership.effective_role of the membership of u in w
effective_role(OM, W, M, u, w) ==
  LET role == ActiveOrgRole(OM, u, W[w].organization)
  IN IF role \in {"owner", "admin"} THEN "admin" ELSE M[<<u, w>>].role

\* A caller reads membership.effective_role.
ReadEffectiveRole(u, w) ==
  /\ <<u, w>> \in DOMAIN ws_members
  /\ last' = Call("effective_role",
                  effective_role(org_members, workspaces, ws_members, u, w),
                  workspaces[w].organization, w, u)
  /\ UNCHANGED <<inflight, orgVars, org_members, workspaces, ws_members, taskVars>>

\* Project.can_user_access
Project_can_user_access(OM, W, M, P, p, u) ==
  can_user_access(OM, W, M, P[p].workspace, u)

\* membership_created_handler: the test in front of its warning, on the
\* membership table M that holds the new row.  Without a current plan the
\* test is skipped.
org_user_limit_warning(S, M, o) ==
  /\ current_plan(S, o) # "none"
  /\ OrgActiveMembers(M, o) > PlanLimits[current_plan(S, o)].max_users

\* workspace_membership_changed_handler: the test in front of its warning,
\* against the resolved limits of the organization.
ws_user_limit_warning(S, OM, o) ==
  OrgActiveMembers(OM, o) > get_usage_limits(S, o).max_users

\* Mutant: the exceeded limit is raised instead of logged.
membership_created_handler_enforcing(S, M, o) ==
  IF org_user_limit_warning(S, M, o) THEN "LimitExceeded" ELSE "ok"

\* membership_created_handler for a created row, as the caller of create()
\* sees it: the handler logs (a warning when the limit is exceeded) and
\* returns.
membership_created_handler(S, M, o) == "ok"

\* OrganizationMembership.objects.create(user, organization, role), then
\* membership_created_handler.  kind records the warning.
OrgMembershipCreate(u, o, role) ==
  /\ o \in DOMAIN orgs
  /\ IF <<u, o>> \in DOMAIN org_members
       THEN /\ last' = Call("OrgMembershipCreate", "IntegrityError", o, 0, u)
            /\ UNCHANGED org_members
       ELSE LET inserted == org_members @@
                              (<<u, o>> :> [role |-> role, is_active |-> TRUE])
            IN /\ org_members' = inserted
               /\ last' = [Call("OrgMembershipCreate",
                                membership_created_handler(subs, inserted, o), o, 0, u)
                             EXCEPT !.kind = IF org_user_limit_warning(subs, inserted, o)
                                               THEN "user_limit_warning"
                                               ELSE "none"]
  /\ UNCHANGED <<inflight, orgVars, workspaces, ws_members, taskVars>>

\* An existing OrganizationMembership saved with a new role and is_active flag.
OrgMembershipSave(u, o, role, is_active) ==
  /\ <<u, o>> \in DOMAIN org_members
  /\ org_members' = [org_members EXCEPT ![<<u, o>>] =
                       [role |-> role, is_active |-> is_active]]
  /\ last' = Call("OrgMembershipSave", "ok", o, 0, u)
  /\ UNCHANGED <<inflight, orgVars, workspaces, ws_members, taskVars>>

\* WorkspaceMembership.objects.create(user, workspace, role): save() runs
\* clean() before the insert, the insert checks unique_together.
WsMembershipCreate(u, w, role) ==
  /\ w \in DOMAIN workspaces
  /\ LET o == workspaces[w].organization
         inserted == ws_members @@ (<<u, w>> :> [role |-> role, is_active |-> TRUE])
     IN IF WorkspaceMembership_clean(org_members, u, o) # "ok"
          THEN /\ last' = Call("WsMembershipCreate", "ValidationError", o, w, u)
               /\ UNCHANGED <<ws_members, workspaces>>
          ELSE IF <<u, w>> \in DOMAIN ws_members
            THEN /\ last' = Call("WsMembershipCreate", "IntegrityError", o, w, u)
                 /\ UNCHANGED <<ws_members, workspaces>>
            ELSE /\ ws_members' = inserted
                 /\ workspaces' = workspace_membership_changed_handler(
                                     workspaces, inserted, w, TRUE, FALSE, FALSE, TRUE)
                 /\ last' = [Call("WsMembershipCreate", "ok", o, w, u)
                               EXCEPT !.kind = IF ws_user_limit_warning(subs, org_members, o)
                                                 THEN "user_limit_warning"
                                                 ELSE "none"]
  /\ UNCHANGED <<inflight, orgVars, org_members, taskVars>>

\* An existing WorkspaceMembership saved with a new role and is_active flag.
\* tracked: the instance is the one that last saved the row (it carries
\* _previous_is_active = the stored flag) instead of a freshly loaded one.
WsMembershipSave(u, w, role, is_active, tracked) ==
  /\ <<u, w>> \in DOMAIN ws_members
  /\ LET o == workspaces[w].organization
         written == [ws_members EXCEPT ![<<u, w>>] =
                       [role |-> role, is_active |-> is_active]]
         prev == ws_members[<<u, w>>].is_active
     IN IF WorkspaceMembership_clean(org_members, u, o) # "ok"
          THEN /\ last' = Call("WsMembershipSave", "ValidationError", o, w, u)
               /\ UNCHANGED <<ws_members, workspaces>>
          ELSE /\ ws_members' = written
               /\ workspaces' = workspace_membership_changed_handler(
                                   workspaces, written, w, FALSE, tracked, prev, is_active)
               /\ last' = Call("WsMembershipSave", "ok", o, w, u)
  /\ UNCHANGED <<inflight, orgVars, org_members, taskVars>>

\* Workspace.add_member(user, role)
add_member(w, u, role) ==
  /\ w \in DOMAIN workspaces
  /\ LET o == workspaces[w].organization
         written == IF <<u, w>> \in DOMAIN ws_members
                      THEN [ws_members EXCEPT ![<<u, w>>] =
                              [role |-> role, is_active |-> TRUE]]
                      ELSE ws_members @@
                             (<<u, w>> :> [role |-> role, is_active |-> TRUE])
     IN IF \/ ~can_user_access(org_members, workspaces, ws_members, w, u)
           \* get_or_create and the update both go through save() -> clean()
           \/ WorkspaceMembership_clean(org_members, u, o) # "ok"
          THEN /\ last' = Call("add_member", "ValidationError", o, w, u)
               /\ UNCHANGED <<ws_members, workspaces>>
          ELSE \* add_member recounts after whatever the receivers did
               /\ ws_members' = written
               /\ workspaces' = [workspaces EXCEPT ![w].member_count =
                                   WsActiveMembers(written, w)]
               /\ last' = Call("add_member", "ok", o, w, u)
  /\ UNCHANGED <<inflight, orgVars, org_members, taskVars>>

\* Workspace.remove_member(user): a queryset update(), no save(), no signal.
remove_member(w, u) ==
  /\ w \in DOMAIN workspaces
  /\ LET written == IF <<u, w>> \in DOMAIN ws_members
                      THEN [ws_members EXCEPT ![<<u, w>>].is_active = FALSE]
                      ELSE ws_members
     IN /\ ws_members' = written
        /\ workspaces' = [workspaces EXCEPT ![w].member_count =
                            WsActiveMembers(written, w)]
  /\ last' = Call("remove_member", "ok", workspaces[w].organization, w, u)
  /\ UNCHANGED <<inflight, orgVars, org_members, taskVars>>

\* membership.delete(): no receiver listens to the deletion of a
\* WorkspaceMembership, the row is removed and nothing else is written.
WsMembershipDelete(u, w) ==
  /\ <<u, w>> \in DOMAIN ws_members
  /\ ws_members' = [k \in DOMAIN ws_members \ {<<u, w>>} |-> ws_members[k]]
  /\ last' = Call("WsMembershipDelete", "ok", workspaces[w].organization, w, u)
  /\ UNCHANGED <<inflight, orgVars, org_members, workspaces, taskVars>>

\* ------------------------------------------------------------- Workspaces

\* Workspace.clean.  has_pk: self.pk is set; the id field defaults to
\* uuid.uuid4, so every instance has one from construction on.
Workspace_clean(S, W, OM, has_pk, o, u) ==
  IF ~has_pk /\ ~check_usage_limit(S, W, OM, o, "workspaces")
    THEN "LimitExceeded"
    ELSE IF ~HasActiveOrgMembership(OM, u, o) THEN "NotOrgMember"
    ELSE "ok"

NextWorkspaceId == Min(WS \ DOMAIN workspaces)

\* Workspace.save() inserting a new row, then workspace_created_handler.
WorkspaceInsert(op, w, o, u, is_private, name) ==
  LET row == [organization |-> o, created_by |-> u, is_private |-> is_private,
              deleted |-> FALSE, status |-> "active", member_count |-> 0,
              project_count |-> 0, settings |-> "empty",
              slug |-> generate_slug(WorkspaceSlugs(workspaces, o), name)]
      inserted == workspaces @@ (w :> row)
      members == ws_members @@ (<<u, w>> :> [role |-> "admin", is_active |-> TRUE])
      counted == workspace_membership_changed_handler(
                   inserted, members, w, TRUE, FALSE, FALSE, TRUE)
  IN IF WorkspaceMembership_clean(org_members, u, o) # "ok"
       THEN \* get_or_create -> save() -> clean() raises inside the receiver;
            \* the workspace row is already stored
            /\ workspaces' = inserted
            /\ UNCHANGED ws_members
            /\ last' = Call(op, "NotOrgMember", o, w, u)
       ELSE /\ ws_members' = members
            /\ workspaces' = [counted EXCEPT ![w].settings = "default"]
            /\ last' = Call(op, "ok", o, w, u)

\* Workspace.objects.create(organization, created_by, is_private)
WorkspaceCreate(o, u, is_private, name) ==
  /\ o \in DOMAIN orgs
  /\ WS \ DOMAIN workspaces # {}
  /\ WorkspaceInsert("WorkspaceCreate", NextWorkspaceId, o, u, is_private, name)
  /\ UNCHANGED <<inflight, orgVars, org_members, taskVars>>

\* workspace = Workspace(...); workspace.full_clean(); workspace.save()
WorkspaceFullCleanSave(o, u, is_private, name) ==
  /\ o \in DOMAIN orgs
  /\ WS \ DOMAIN workspaces # {}
  /\ LET verdict == Workspace_clean(subs, workspaces, org_members, TRUE, o, u)
     IN IF verdict # "ok"
          THEN /\ last' = Call("WorkspaceFullCleanSave", verdict, o, NextWorkspaceId, u)
               /\ UNCHANGED <<workspaces, ws_members>>
          ELSE WorkspaceInsert("WorkspaceFullCleanSave", NextWorkspaceId, o, u,
                               is_private, name)
  /\ UNCHANGED <<inflight, orgVars, org_members, taskVars>>

\* Workspace.soft_delete
Workspace_soft_delete(w) ==
  /\ w \in DOMAIN workspaces
  /\ workspaces' = [workspaces EXCEPT ![w].deleted = TRUE, ![w].status = "archived"]
  /\ last' = Call("Workspace_soft_delete", "ok", workspaces[w].organization, w, "none")
  /\ UNCHANGED <<inflight, orgVars, org_members, ws_members, taskVars>>

\* Workspace.restore
Workspace_restore(w) ==
  /\ w \in DOMAIN workspaces
  /\ workspaces' = [workspaces EXCEPT ![w].deleted = FALSE, ![w].status = "active"]
  /\ last' = Call("Workspace_restore", "ok", workspaces[w].organization, w, "none")
  /\ UNCHANGED <<inflight, orgVars, org_members, ws_members, taskVars>>

\* --------------------------------------------------- Tasks and dependencies

\* A Task row as Task.objects.create(project=p) stores it.
NewTask(p) ==
  [project |-> p, status |-> "todo", deleted |-> FALSE, started_at |-> 0,
   completed_at |-> 0]

CompletedStatus == {"completed", "verified"}

\* task.depends_on: the ManyToManyField to 'self' through TaskDependency.  No
\* through_fields are given, so Django takes the first foreign key of the
\* through model (from_task) as the source and the second (to_task) as the
\* target: the tasks X with a row (from_task = t, to_task = X), of any type.
depends_on(D, t) == {e[2] : e \in {d \in D : d[1] = t}}

\* task.dependent_tasks, the reverse accessor: the tasks X with a row
\* (from_task = X, to_task = t).
dependent_tasks(D, t) == {e[1] : e \in {d \in D : d[2] = t}}

\* Mutant: the filter without deleted_at__isnull=True.
get_blocking_tasks_with_deleted(T, D, t) ==
  {x \in depends_on(D, t) : T[x].status \notin CompletedStatus}

\* Task.get_blocking_tasks
get_blocking_tasks(T, D, t) ==
  {x \in depends_on(D, t) : ~T[x].deleted /\ T[x].status \notin CompletedStatus}

\* Task.is_blocked
is_blocked(T, D, t) ==
  IF T[t].status = "blocked" THEN TRUE
  ELSE get_blocking_tasks(T, D, t) # {}

\* Task.can_start
can_start(T, D, t) == ~is_blocked(T, D, t)

\* Python's round() of (n / d) * 100: to the nearest integer, ties to even.
PyRoundPercent(n, d) ==
  LET q == (100 * n) \div d
      twice == 2 * ((100 * n) % d)
  IN IF twice < d THEN q
     ELSE IF twice > d THEN q + 1
     ELSE IF q % 2 = 0 THEN q ELSE q + 1

\* Project.get_active_tasks
get_active_tasks(T, p) == {t \in DOMAIN T : T[t].project = p /\ ~T[t].deleted}

\* Project.calculate_progress_percentage: the value it returns.
progress_value(T, p) ==
  LET active == get_active_tasks(T, p)
      done == {t \in active : T[t].status \in CompletedStatus}
  IN IF Cardinality(active) = 0 THEN 0
     ELSE PyRoundPercent(Cardinality(done), Cardinality(active))

\* Mutant: the cached field is saved on every call that finds an active task.
writes_progress_always(P, T, p) == get_active_tasks(T, p) # {}

\* Project.calculate_progress_percentage: whether it saves the project.  With no
\* active task it returns before the cached field is looked at.
writes_progress(P, T, p) ==
  /\ get_active_tasks(T, p) # {}
  /\ P[p].progress_percentage # progress_value(T, p)

\* Project.calculate_progress_percentage: the project table it leaves.
calculate_progress_percentage(P, T, p) ==
  IF writes_progress(P, T, p)
    THEN [P EXCEPT ![p].progress_percentage = progress_value(T, p)]
    ELSE P

\* timezone.now() where the time of the call is not the subject.
NowIn == 1

\* Mutant: the timestamps are assigned on every save with a matching status.
Task_save_overwriting(row, now) ==
  IF row.status = "in_progress" THEN [row EXCEPT !.started_at = now]
  ELSE IF row.status \in CompletedStatus THEN [row EXCEPT !.completed_at = now]
  ELSE row

\* Task.save: the status timestamps; now is timezone.now(), 0 stands for a
\* NULL timestamp.
Task_save(row, now) ==
  IF row.status = "in_progress" /\ row.started_at = 0
    THEN [row EXCEPT !.started_at = now]
  ELSE IF row.status \in CompletedStatus /\ row.completed_at = 0
    THEN [row EXCEPT !.completed_at = now]
  ELSE row

\* Mutant: every scanned task is unblocked, without asking can_start().
unblocked_by_unconditionally(T, D, t) ==
  IF T[t].status \in CompletedStatus
    THEN {d \in dependent_tasks(D, t) : T[d].status = "blocked" /\ ~T[d].deleted}
    ELSE {}

\* task_changed_handler for a save that did not create the task: the tasks it
\* unblocks.  The rows it scans are BLOCKED, and each is asked can_start().
unblocked_by(T, D, t) ==
  IF T[t].status \in CompletedStatus
    THEN {d \in dependent_tasks(D, t) :
            T[d].status = "blocked" /\ ~T[d].deleted /\ can_start(T, D, d)}
    ELSE {}

\* The task table after task_changed_handler (not created) ran for t: each
\* unblocked task is saved as TODO; its own handler run finds a status that is
\* not COMPLETED and stops there.
task_changed_tasks(T, D, t) ==
  [x \in DOMAIN T |->
     IF x \in unblocked_by(T, D, t)
       THEN Task_save([T[x] EXCEPT !.status = "todo"], NowIn)
       ELSE T[x]]

\* The project table after the same run: progress is recomputed for t's
\* project, and again by the handler run of every task saved on the way.
task_changed_projects(P, T, D, t) ==
  LET after == task_changed_tasks(T, D, t)
      first == calculate_progress_percentage(P, T, T[t].project)
  IN IF unblocked_by(T, D, t) = {} THEN first
     ELSE [p \in DOMAIN P |->
             IF \E x \in unblocked_by(T, D, t) : T[x].project = p
               THEN calculate_progress_percentage(first, after, p)[p]
               ELSE first[p]]

\* task.status = status; task.save() at time now
TaskSave(t, status, now) ==
  /\ t \in DOMAIN tasks
  /\ LET written == [tasks EXCEPT ![t] =
                       Task_save([tasks[t] EXCEPT !.status = status], now)]
     IN /\ tasks' = task_changed_tasks(written, deps, t)
        /\ projects' = task_changed_projects(projects, written, deps, t)
  /\ last' = [TaskCall("TaskSave", "ok", t, "none", status) EXCEPT !.value = now]
  /\ UNCHANGED <<inflight, orgVars, org_members, workspaces, ws_members, deps, proj_members>>

\* Task.soft_delete: save(update_fields=['deleted_at']) stores the flag only,
\* and the post_save receiver runs as for any update.
Task_soft_delete(t) ==
  /\ t \in DOMAIN tasks
  /\ LET written == [tasks EXCEPT ![t].deleted = TRUE]
     IN /\ tasks' = task_changed_tasks(written, deps, t)
        /\ projects' = task_changed_projects(projects, written, deps, t)
  /\ last' = TaskCall("Task_soft_delete", "ok", t, "none", "none")
  /\ UNCHANGED <<inflight, orgVars, org_members, workspaces, ws_members, deps, proj_members>>

\* TaskDependency.clean
TaskDependency_clean(T, from, to) ==
  IF from = to THEN "ValidationError"
  ELSE IF T[from].project # T[to].project THEN "ValidationError"
  ELSE "ok"

\* TaskDependency.save() inserting the row (the model does not override save,
\* so clean() is not part of it), then dependency_created_handler.
DependencyInsert(op, from, to, kind) ==
  LET edges == deps \cup {<<from, to, kind>>}
      blocks == /\ kind = "blocks"
                /\ tasks[to].status = "todo"
                /\ is_blocked(tasks, edges, to)
      written == [tasks EXCEPT ![to] =
                    Task_save([tasks[to] EXCEPT !.status = "blocked"], NowIn)]
  IN IF <<from, to, kind>> \in deps
       THEN \* unique_together = [from_task, to_task, dependency_type]
            /\ last' = TaskCall(op, "IntegrityError", from, to, kind)
            /\ UNCHANGED <<deps, tasks, projects>>
       ELSE /\ deps' = edges
            /\ tasks' = IF blocks THEN task_changed_tasks(written, edges, to) ELSE tasks
            /\ projects' = IF blocks
                             THEN task_changed_projects(projects, written, edges, to)
                             ELSE projects
            /\ last' = TaskCall(op, "ok", from, to, kind)

\* TaskDependency.objects.create(from_task, to_task, dependency_type)
DependencyCreate(from, to, kind) ==
  /\ from \in DOMAIN tasks /\ to \in DOMAIN tasks
  /\ Cardinality(deps) < MaxDeps
  /\ DependencyInsert("DependencyCreate", from, to, kind)
  /\ UNCHANGED <<inflight, orgVars, org_members, workspaces, ws_members, proj_members>>

\* dependency = TaskDependency(...); dependency.full_clean(); dependency.save()
DependencyFullCleanSave(from, to, kind) ==
  /\ from \in DOMAIN tasks /\ to \in DOMAIN tasks
  /\ Cardinality(deps) < MaxDeps
  /\ IF TaskDependency_clean(tasks, from, to) # "ok" \/ <<from, to, kind>> \in deps
       THEN \* clean() or validate_unique() raises ValidationError
            /\ last' = TaskCall("DependencyFullCleanSave", "ValidationError", from, to, kind)
            /\ UNCHANGED <<deps, tasks, projects>>
       ELSE DependencyInsert("DependencyFullCleanSave", from, to, kind)
  /\ UNCHANGED <<inflight, orgVars, org_members, workspaces, ws_members, proj_members>>

\* ------------------------------------------------ Projects and their members

\* A Project row as Project.objects.create(workspace=w, created_by=u,
\* project_manager=pm) stores it ("none" for no project manager).
NewProject(w, u, pm) ==
  [workspace |-> w, created_by |-> u, project_manager |-> pm,
   status |-> "planning", deleted |-> FALSE, progress_percentage |-> 0]

\* The ProjectMembership row project_created_handler stores for a lead.
LeadRow(u, p) == [user |-> u, project |-> p, role |-> "lead", is_active |-> TRUE]

\* Mutant: no unique constraint on the pair.
HasProjectMembership_unchecked(PM, u, p) == FALSE

\* unique_together = [user, project] of ProjectMembership: a row of the pair
\* is already stored.
HasProjectMembership(PM, u, p) ==
  \E i \in 1..Len(PM) : PM[i].user = u /\ PM[i].project = p

\* project.memberships.filter(user=u, is_active=True).exists()
HasActiveProjectMembership(PM, u, p) ==
  \E i \in 1..Len(PM) : PM[i].user = u /\ PM[i].project = p /\ PM[i].is_active

\* Mutant: the defaults are dropped, the row gets the field default MEMBER.
ProjectMembership_get_or_create_no_defaults(PM, u, p, role) ==
  IF HasProjectMembership(PM, u, p) THEN PM
  ELSE Append(PM, [user |-> u, project |-> p, role |-> "member", is_active |-> TRUE])

\* ProjectMembership.objects.get_or_create(user, project, defaults={role, ...})
ProjectMembership_get_or_create(PM, u, p, role) ==
  IF HasProjectMembership(PM, u, p) THEN PM
  ELSE Append(PM, [user |-> u, project |-> p, role |-> role, is_active |-> TRUE])

\* ProjectMembership.objects.create(user, project, role) by a caller.
ProjectMembershipCreate(u, p, role) ==
  /\ p \in DOMAIN projects
  /\ IF HasProjectMembership(proj_members, u, p)
       THEN /\ last' = ProjectCall("ProjectMembershipCreate", "IntegrityError",
                                   p, 0, u, role, 0, FALSE)
            /\ UNCHANGED proj_members
       ELSE /\ proj_members' = Append(proj_members,
                 [user |-> u, project |-> p, role |-> role, is_active |-> TRUE])
            /\ last' = ProjectCall("ProjectMembershipCreate", "ok", p, 0, u, role, 0, FALSE)
  /\ UNCHANGED <<inflight, orgVars, org_members, workspaces, ws_members, projects,
                 tasks, deps>>

\* membership.is_active = is_active; membership.save() on the i-th row.
ProjectMembershipSave(i, is_active) ==
  /\ i \in 1..Len(proj_members)
  /\ proj_members' = [proj_members EXCEPT ![i].is_active = is_active]
  /\ last' = ProjectCall("ProjectMembershipSave", "ok", proj_members[i].project, 0,
                         proj_members[i].user, "none", 0, FALSE)
  /\ UNCHANGED <<inflight, orgVars, org_members, workspaces, ws_members, projects,
                 tasks, deps>>

\* workspace.projects.filter(deleted_at__isnull=True).count()
ProjectCount(P, w) ==
  Cardinality({p \in DOMAIN P : P[p].workspace = w /\ ~P[p].deleted})

\* Project.clean: the project limit of the workspace (for an instance without
\* a primary key only), then the dates.
Project_clean(S, W, P, has_pk, w, dates_ok) ==
  IF /\ ~has_pk
     /\ ProjectCount(P, w)
          >= get_usage_limits(S, W[w].organization).max_projects_per_workspace
    THEN "LimitExceeded"
  ELSE IF ~dates_ok THEN "DatesInvalid"
  ELSE "ok"

\* The primary key of the next project.
NextProjectId == IF "p1" \notin DOMAIN projects THEN "p1" ELSE "p2"

\* Project.save() inserting a new row, then project_created_handler: the
\* creator becomes lead, the workspace's project_count is recounted, and a
\* project manager other than the creator becomes lead as well.
ProjectInsert(op, p, w, u, pm, dates_ok) ==
  LET inserted == projects @@ (p :> NewProject(w, u, pm))
      withCreator == ProjectMembership_get_or_create(proj_members, u, p, "lead")
      withManager == IF pm # "none" /\ pm # u
                       THEN ProjectMembership_get_or_create(withCreator, pm, p, "lead")
                       ELSE withCreator
  IN /\ projects' = inserted
     /\ workspaces' = [workspaces EXCEPT ![w].project_count = ProjectCount(inserted, w)]
     /\ proj_members' = withManager
     /\ last' = ProjectCall(op, "ok", p, w, u,
                            IF dates_ok THEN "dates_ok" ELSE "start_after_due",
                            ProjectCount(projects, w), TRUE)

\* Project.objects.create(workspace, created_by, project_manager, start_date,
\* due_date)
ProjectCreate(w, u, pm, dates_ok) ==
  /\ w \in DOMAIN workspaces
  /\ Projects \ DOMAIN projects # {}
  /\ ProjectInsert("ProjectCreate", NextProjectId, w, u, pm, dates_ok)
  /\ UNCHANGED <<inflight, orgVars, org_members, ws_members, tasks, deps>>

\* project = Project(...); project.full_clean(); project.save().  The UUID
\* primary key is filled in by its default when the instance is built.
ProjectFullCleanSave(w, u, pm, dates_ok) ==
  /\ w \in DOMAIN workspaces
  /\ Projects \ DOMAIN projects # {}
  /\ LET verdict == Project_clean(subs, workspaces, projects, TRUE, w, dates_ok)
     IN IF verdict # "ok"
          THEN /\ last' = ProjectCall("ProjectFullCleanSave", verdict, NextProjectId, w, u,
                                      IF dates_ok THEN "dates_ok" ELSE "start_after_due",
                                      ProjectCount(projects, w), FALSE)
               /\ UNCHANGED <<projects, workspaces, proj_members>>
          ELSE ProjectInsert("ProjectFullCleanSave", NextProjectId, w, u, pm, dates_ok)
  /\ UNCHANGED <<inflight, orgVars, org_members, ws_members, tasks, deps>>

\* project.calculate_progress_percentage() called directly.  kind tells whether
\* the call before it was the same call on the same project, and whether that
\* one wrote.
CalculateProgress(p) ==
  /\ p \in DOMAIN projects
  /\ projects' = calculate_progress_percentage(projects, tasks, p)
  /\ last' = ProjectCall("calculate_progress_percentage", "ok", p, 0, "none",
                         IF last.op = "calculate_progress_percentage" /\ last.project = p
                           THEN IF last.wrote THEN "after_write" ELSE "after_read"
                           ELSE "first",
                         progress_value(tasks, p),
                         writes_progress(projects, tasks, p))
  /\ UNCHANGED <<inflight, orgVars, org_members, workspaces, ws_members, tasks, deps,
                 proj_members>>

\* The primary key of the next task.
NextTaskId ==
  IF "t1" \notin DOMAIN tasks THEN "t1"
  ELSE IF "t2" \notin DOMAIN tasks THEN "t2" ELSE "t3"

\* task_changed_handler for a created task, one of its two membership steps:
\* a user without an active ProjectMembership gets a new MEMBER row, which the
\* unique constraint refuses when an inactive row of the pair is stored.
auto_add_conflicts(PM, u, p) ==
  ~HasActiveProjectMembership(PM, u, p) /\ HasProjectMembership(PM, u, p)

auto_add_member(PM, u, p) ==
  IF HasActiveProjectMembership(PM, u, p) THEN PM
  ELSE Append(PM, [user |-> u, project |-> p, role |-> "member", is_active |-> TRUE])

\* Task.objects.create(project, created_by, assignee) ("none" for no
\* assignee), then task_changed_handler for a created task.  The row is stored
\* before the receiver runs; an IntegrityError in the receiver reaches the
\* caller and leaves the row and the memberships added so far.
TaskCreate(p, u, a) ==
  /\ p \in DOMAIN projects
  /\ Tasks \ DOMAIN tasks # {}
  /\ tasks' = tasks @@ (NextTaskId :> NewTask(p))
  /\ LET withCreator == auto_add_member(proj_members, u, p)
     IN IF auto_add_conflicts(proj_members, u, p)
          THEN /\ UNCHANGED proj_members
               /\ last' = [TaskCall("TaskCreate", "IntegrityError", NextTaskId, "none", a)
                             EXCEPT !.user = u, !.project = p]
          ELSE IF a # "none" /\ auto_add_conflicts(withCreator, a, p)
            THEN /\ proj_members' = withCreator
                 /\ last' = [TaskCall("TaskCreate", "IntegrityError", NextTaskId, "none", a)
                               EXCEPT !.user = u, !.project = p]
          ELSE /\ proj_members' = IF a # "none"
                                    THEN auto_add_member(withCreator, a, p)
                                    ELSE withCreator
               /\ last' = [TaskCall("TaskCreate", "ok", NextTaskId, "none", a)
                             EXCEPT !.user = u, !.project = p]
  /\ UNCHANGED <<inflight, orgVars, org_members, workspaces, ws_members, projects, deps>>

\* Mutant: the update without the project filter.
soft_delete_tasks_of_every_project(T, p) ==
  [t \in DOMAIN T |-> IF ~T[t].deleted THEN [T[t] EXCEPT !.deleted = TRUE] ELSE T[t]]

\* self.tasks.filter(deleted_at__isnull=True).update(deleted_at=now): the
\* task table after Project.soft_delete of p.
soft_delete_tasks(T, p) ==
  [t \in DOMAIN T |->
     IF T[t].project = p /\ ~T[t].deleted
       THEN [T[t] EXCEPT !.deleted = TRUE]
       ELSE T[t]]

\* Project.soft_delete: the project row is saved with deleted_at and status
\* ARCHIVED (project_created_handler does nothing for a save that did not
\* create the row), then the project's live tasks are marked deleted by a
\* queryset update(), which sends no signal.
Project_soft_delete(p) ==
  /\ p \in DOMAIN projects
  /\ projects' = [projects EXCEPT ![p].deleted = TRUE, ![p].status = "archived"]
  /\ tasks' = soft_delete_tasks(tasks, p)
  /\ last' = ProjectCall("Project_soft_delete", "ok", p, projects[p].workspace,
                         "none", "none", ProjectCount(projects, projects[p].workspace),
                         TRUE)
  /\ UNCHANGED <<inflight, orgVars, org_members, workspaces, ws_members, deps, proj_members>>

\* project_deleting_handler: the workspace table it leaves, the project being
\* deleted left out of the count.
project_deleting_handler(W, P, p) ==
  [W EXCEPT ![P[p].workspace].project_count =
     Cardinality({x \in DOMAIN P :
                    /\ P[x].workspace = P[p].workspace
                    /\ ~P[x].deleted
                    /\ x # p})]

\* project.delete(): the deletion collects the rows that cascade from the
\* project (its tasks and memberships) and sends pre_delete for each of them
\* inside one transaction.  task_deleting_handler raises NameError (it uses
\* models.Q and the module does not import models), so a project with any
\* task row is not deleted and everything is rolled back.
ProjectDelete(p) ==
  /\ p \in DOMAIN projects
  /\ IF \E t \in DOMAIN tasks : tasks[t].project = p
       THEN /\ last' = ProjectCall("ProjectDelete", "NameError", p, projects[p].workspace,
                                   "none", "none",
                                   ProjectCount(projects, projects[p].workspace), FALSE)
            /\ UNCHANGED <<projects, workspaces, proj_members>>
       ELSE /\ workspaces' = project_deleting_handler(workspaces, projects, p)
            /\ projects' = [x \in DOMAIN projects \ {p} |-> projects[x]]
            /\ proj_members' = SelectSeq(proj_members, LAMBDA m : m.project # p)
            /\ last' = ProjectCall("ProjectDelete", "ok", p, projects[p].workspace,
                                   "none", "none",
                                   ProjectCount(projects, projects[p].workspace), TRUE)
  /\ UNCHANGED <<inflight, orgVars, org_members, ws_members, tasks, deps>>

\* task.delete(): pre_delete runs task_deleting_handler, whose dependency
\* cleanup evaluates models.Q although the module never imports models; the
\* NameError leaves the receiver before any row is touched and the deletion
\* is abandoned.
TaskDelete(t) ==
  /\ t \in DOMAIN tasks
  /\ last' = TaskCall("TaskDelete", "NameError", t, "none", "none")
  /\ UNCHANGED <<inflight, orgVars, org_members, workspaces, ws_members, taskVars>>

\* ------------------------------------------------ Two requests in flight

\* The two requests that race.
Requests == {1, 2}

\* A request to add a workspace, first half: the form's full_clean() runs
\* Workspace.clean on the instance, which carries its UUID primary key already.
\* A request that passes waits in inflight for its save().
WorkspaceRequestValidate(r, o, u, is_private) ==
  /\ r \notin DOMAIN inflight
  /\ o \in DOMAIN orgs
  /\ LET verdict == Workspace_clean(subs, workspaces, org_members, TRUE, o, u)
     IN /\ inflight' = inflight @@
             (r :> [org |-> o, user |-> u, is_private |-> is_private,
                    stage |-> IF verdict = "ok" THEN "validated" ELSE "done"])
        /\ last' = Call("WorkspaceRequestValidate", verdict, o, 0, u)
  /\ UNCHANGED <<orgVars, org_members, workspaces, ws_members, taskVars>>

\* Second half: save() of the validated instance, with its receivers.
WorkspaceRequestSave(r) ==
  /\ r \in DOMAIN inflight
  /\ inflight[r].stage = "validated"
  /\ WS \ DOMAIN workspaces # {}
  /\ WorkspaceInsert("WorkspaceRequestSave", NextWorkspaceId, inflight[r].org,
                     inflight[r].user, inflight[r].is_private, WorkspaceNameIn)
  /\ inflight' = [inflight EXCEPT ![r].stage = "done"]
  /\ UNCHANGED <<orgVars, org_members, taskVars>>

\* ------------------------------------------------------- Specifications

EmptyTable == [x \in {} |-> 0]

OwnerRow == [role |-> "owner", is_active |-> TRUE]

\* The empty database with its seeded plan catalog.
Init ==
  /\ plans \in {{"starter"}, {"free", "starter"}}
  /\ orgs = EmptyTable
  /\ subs = << >>
  /\ org_members = EmptyTable
  /\ workspaces = EmptyTable
  /\ ws_members = EmptyTable
  /\ projects = EmptyTable
  /\ tasks = EmptyTable
  /\ deps = {}
  /\ proj_members = << >>
  /\ inflight = EmptyTable
  /\ last = NoCall

\* Organizations are created in the order o1, o2.
NextOrg(o) == o \notin DOMAIN orgs /\ (o = "o2" => "o1" \in DOMAIN orgs)

\* Organization creation and what happens to the organization afterwards.
Next ==
  \/ \E o \in Orgs, u \in Users, given \in {"empty", "custom"} :
       NextOrg(o) /\ OrganizationCreate(o, u, given, OrgNameIn(o))
  \/ \E o \in Orgs : OrganizationSoftDelete(o)
  \/ \E i \in 1..(MaxSubs + 1), st \in SubStatus : SubscriptionSave(i, st)
  \/ \E i \in 1..(MaxSubs + 1), b \in BOOLEAN : SubscriptionCancel(i, b)
  \/ \E o \in Orgs, u \in Users, r \in OrgRoleIn : OrgMembershipCreate(u, o, r)

Spec == Init /\ [][Next]_vars

\* Two organizations created without a FREE plan in the catalog: o1 by u1,
\* o2 by u2.
OrgsCreated ==
  /\ plans = {"starter", "professional"}
  /\ orgs = [o \in Orgs |-> [owner |-> IF o = "o1" THEN "u1" ELSE "u2",
                             status |-> "active", deleted |-> FALSE,
                             settings |-> "default",
                             slug |-> slugify(OrgNameIn(o))]]
  /\ subs = << >>
  /\ org_members = (<<"u1", "o1">> :> OwnerRow) @@ (<<"u2", "o2">> :> OwnerRow)

\* ... with no workspace yet.
InitLimits ==
  /\ OrgsCreated
  /\ workspaces = EmptyTable
  /\ ws_members = EmptyTable
  /\ projects = EmptyTable
  /\ tasks = EmptyTable
  /\ deps = {}
  /\ proj_members = << >>
  /\ inflight = EmptyTable
  /\ last = NoCall

\* Subscriptions of the two organizations.
NextLimits ==
  \/ \E o \in Orgs, pt \in PlanType, st \in SubStatus :
       SubscriptionCreate(o, pt, st, Len(subs) + 1)
  \/ \E i \in 1..MaxSubs, st \in SubStatus : SubscriptionSave(i, st)
  \/ \E i \in 1..MaxSubs, b \in BOOLEAN : SubscriptionCancel(i, b)

SpecLimits == InitLimits /\ [][NextLimits]_vars

\* One organization o1 created by u1, with or without a FREE plan in the
\* catalog, and no workspace yet.
InitWorkspace ==
  /\ plans \in {{"starter"}, {"free", "starter"}}
  /\ orgs = ("o1" :> [owner |-> "u1", status |-> "active", deleted |-> FALSE,
                      settings |-> "default", slug |-> slugify(OrgNameIn("o1"))])
  /\ subs = IF "free" \in plans
              THEN << TrialSubscription("o1") >>
              ELSE << >>
  /\ org_members = (<<"u1", "o1">> :> OwnerRow)
  /\ workspaces = EmptyTable
  /\ ws_members = EmptyTable
  /\ projects = EmptyTable
  /\ tasks = EmptyTable
  /\ deps = {}
  /\ proj_members = << >>
  /\ inflight = EmptyTable
  /\ last = NoCall

\* Workspaces of o1.
NextWorkspace ==
  \/ \E u \in Users : WorkspaceCreate("o1", u, FALSE, WorkspaceNameIn)
  \/ \E u \in Users : WorkspaceFullCleanSave("o1", u, FALSE, WorkspaceNameIn)
  \/ \E w \in WS : Workspace_soft_delete(w)
  \/ \E w \in WS : Workspace_restore(w)
  \/ \E st \in SubStatus : SubscriptionSave(1, st)

SpecWorkspace == InitWorkspace /\ [][NextWorkspace]_vars

\* ... and a workspace 1 of o1 created by u1, private or public, holding the
\* project p1.
InitMem ==
  /\ OrgsCreated
  /\ \E is_private \in BOOLEAN :
       workspaces = (1 :> [organization |-> "o1", created_by |-> "u1",
                           is_private |-> is_private, deleted |-> FALSE,
                           status |-> "active", member_count |-> 1,
                           project_count |-> 1, settings |-> "default",
                           slug |-> slugify(WorkspaceNameIn)])
  /\ ws_members = (<<"u1", 1>> :> [role |-> "admin", is_active |-> TRUE])
  /\ projects = ("p1" :> NewProject(1, "u1", "none"))
  /\ proj_members = << LeadRow("u1", "p1") >>
  /\ tasks = EmptyTable
  /\ deps = {}
  /\ inflight = EmptyTable
  /\ last = NoCall

\* Organization o1 of u1 on its FREE trial (max_users 2) with the public
\* workspace 1, before anyone else joins.
InitUsers ==
  /\ plans = {"free", "starter"}
  /\ orgs = ("o1" :> [owner |-> "u1", status |-> "active", deleted |-> FALSE,
                      settings |-> "default", slug |-> slugify(OrgNameIn("o1"))])
  /\ subs = << TrialSubscription("o1") >>
  /\ org_members = (<<"u1", "o1">> :> OwnerRow)
  /\ workspaces = (1 :> [organization |-> "o1", created_by |-> "u1",
                         is_private |-> FALSE, deleted |-> FALSE,
                         status |-> "active", member_count |-> 1,
                         project_count |-> 0, settings |-> "default",
                         slug |-> slugify(WorkspaceNameIn)])
  /\ ws_members = (<<"u1", 1>> :> [role |-> "admin", is_active |-> TRUE])
  /\ projects = EmptyTable
  /\ proj_members = << >>
  /\ tasks = EmptyTable
  /\ deps = {}
  /\ inflight = EmptyTable
  /\ last = NoCall

\* Three users, one more than the FREE plan allows.
UsersIn == Users \cup {"u3"}

\* Users join o1 and its workspace, memberships are switched off and on, and
\* the subscription changes status (with none current, max_users is 1).
NextUsers ==
  \/ \E u \in UsersIn, r \in OrgRoleIn : OrgMembershipCreate(u, "o1", r)
  \/ \E u \in UsersIn, a \in BOOLEAN : OrgMembershipSave(u, "o1", "member", a)
  \/ \E u \in UsersIn, r \in WsRoleIn : WsMembershipCreate(u, 1, r)
  \/ \E st \in {"trialing", "cancelled"} : SubscriptionSave(1, st)

SpecUsers == InitUsers /\ [][NextUsers]_vars

\* Memberships of o1 and of its workspace.
NextMem ==
  \/ \E u \in Users, r \in OrgRoleIn : OrgMembershipCreate(u, "o1", r)
  \/ \E u \in Users, r \in OrgRoleIn \cup {"owner"}, a \in BOOLEAN :
       OrgMembershipSave(u, "o1", r, a)
  \/ \E u \in Users, r \in WsRoleIn : WsMembershipCreate(u, 1, r)
  \/ \E u \in Users, r \in WsRoleIn, a \in BOOLEAN, tracked \in BOOLEAN :
       WsMembershipSave(u, 1, r, a, tracked)
  \/ \E u \in Users, r \in WsRoleIn : add_member(1, u, r)
  \/ \E u \in Users : remove_member(1, u)
  \/ \E u \in Users, r \in {"member", "reviewer"} : ProjectMembershipCreate(u, "p1", r)
  \/ \E u \in Users : ReadEffectiveRole(u, 1)
  \/ \E u \in Users : WsMembershipDelete(u, 1)

SpecMem == InitMem /\ [][NextMem]_vars

\* The public workspace 1 of o1 with the projects p1 and p2.
ProjectsCreated ==
  /\ OrgsCreated
  /\ workspaces = (1 :> [organization |-> "o1", created_by |-> "u1",
                         is_private |-> FALSE, deleted |-> FALSE,
                         status |-> "active", member_count |-> 1,
                         project_count |-> 2, settings |-> "default",
                         slug |-> slugify(WorkspaceNameIn)])
  /\ ws_members = (<<"u1", 1>> :> [role |-> "admin", is_active |-> TRUE])
  /\ projects = [p \in Projects |-> NewProject(1, "u1", "none")]
  /\ proj_members = << LeadRow("u1", "p1"), LeadRow("u1", "p2") >>
  /\ inflight = EmptyTable
  /\ last = NoCall

\* Tasks t1 and t2 of project p1 and t3 of project p2, no dependency yet.
InitTask ==
  /\ ProjectsCreated
  /\ tasks = [t \in Tasks |-> NewTask(IF t = "t3" THEN "p2" ELSE "p1")]
  /\ deps = {}

\* The statuses a caller writes here: the two completed ones, BLOCKED, and TODO
\* for the other three, which every rule below treats alike.
StatusIn == {"todo", "blocked", "completed", "verified"}

\* BLOCKS and one of the types the handlers do not single out.
DependencyTypeIn == {"blocks", "related"}

\* Status changes and dependency creations.
NextTask ==
  \/ \E t \in Tasks, st \in StatusIn : TaskSave(t, st, NowIn)
  \/ \E from \in Tasks, to \in Tasks, k \in DependencyTypeIn :
       DependencyCreate(from, to, k)
  \/ \E from \in Tasks, to \in Tasks, k \in DependencyTypeIn :
       DependencyFullCleanSave(from, to, k)

SpecTask == InitTask /\ [][NextTask]_vars

\* Three tasks of project p1; the rows (t1, t2) and (t1, t3) were created
\* while all three were TODO, the second one of any type.
InitBlocked ==
  /\ ProjectsCreated
  /\ tasks = [t \in Tasks |-> NewTask("p1")]
  /\ \E k \in DependencyTypeIn : deps = {<<"t1", "t2", "blocks">>, <<"t1", "t3", k>>}

\* Status changes and soft deletions over a fixed dependency graph.
NextBlocked ==
  \/ \E t \in Tasks, st \in StatusIn : TaskSave(t, st, NowIn)
  \/ \E t \in Tasks : Task_soft_delete(t)
  \/ \E t \in Tasks : TaskDelete(t)
  \/ ProjectDelete("p1")

SpecBlocked == InitBlocked /\ [][NextBlocked]_vars

\* Three tasks of project p1 without dependencies.
InitCycle ==
  /\ ProjectsCreated
  /\ tasks = [t \in Tasks |-> NewTask("p1")]
  /\ deps = {}

\* Dependencies created through validation only (full_clean, then save), and
\* status changes.
NextCycle ==
  \/ \E from \in Tasks, to \in Tasks, k \in DependencyTypeIn :
       DependencyFullCleanSave(from, to, k)
  \/ \E t \in Tasks, st \in StatusIn : TaskSave(t, st, NowIn)

SpecCycle == InitCycle /\ [][NextCycle]_vars

\* A chain of three tasks of p1: t1 blocks t2 blocks t3, with t2 and t3 saved
\* as BLOCKED.  The two BLOCKS rows are stored either as the model documents
\* them (from_task blocks to_task) or the way Task.depends_on reads them.
InitChain ==
  /\ ProjectsCreated
  /\ tasks = [t \in Tasks |->
                [NewTask("p1") EXCEPT !.status = IF t = "t1" THEN "todo" ELSE "blocked"]]
  /\ \/ deps = {<<"t1", "t2", "blocks">>, <<"t2", "t3", "blocks">>}
     \/ deps = {<<"t2", "t1", "blocks">>, <<"t3", "t2", "blocks">>}

\* Work on a task that is not BLOCKED: any status but BLOCKED is saved on it.
WorkOn(t, status) ==
  /\ t \in DOMAIN tasks
  /\ tasks[t].status # "blocked"
  /\ status # "blocked"
  /\ TaskSave(t, status, NowIn)

\* A task that is neither BLOCKED nor finished is completed.
Complete(t) ==
  /\ t \in DOMAIN tasks
  /\ tasks[t].status \notin CompletedStatus
  /\ WorkOn(t, "completed")

NextChain ==
  \/ \E t \in Tasks, st \in TaskStatus : WorkOn(t, st)
  \/ \E t \in Tasks : Task_soft_delete(t)

\* Every task that can be worked on is eventually completed.
SpecChain ==
  InitChain /\ [][NextChain]_vars /\ \A t \in Tasks : WF_vars(Complete(t))

\* The clock readings of the saves below.
Times == 1..MaxTime

\* The clock does not run backwards: now is not before any stored timestamp.
ClockAt(now) ==
  \A t \in DOMAIN tasks : tasks[t].started_at <= now /\ tasks[t].completed_at <= now

\* Status changes of every kind on t1 and t2 (reopening included) at
\* successive times, and soft deletions.
NextTimestamps ==
  \/ \E t \in {"t1", "t2"}, st \in TaskStatus, now \in Times :
       ClockAt(now) /\ TaskSave(t, st, now)
  \/ \E t \in {"t1", "t2"} : Task_soft_delete(t)

SpecTimestamps == InitTask /\ [][NextTimestamps]_vars

\* The public workspace 1 of o1 before its first project.
WorkspaceCreated ==
  /\ OrgsCreated
  /\ workspaces = (1 :> [organization |-> "o1", created_by |-> "u1",
                         is_private |-> FALSE, deleted |-> FALSE,
                         status |-> "active", member_count |-> 1,
                         project_count |-> 0, settings |-> "default",
                         slug |-> slugify(WorkspaceNameIn)])
  /\ ws_members = (<<"u1", 1>> :> [role |-> "admin", is_active |-> TRUE])
  /\ inflight = EmptyTable
  /\ last = NoCall

InitProject ==
  /\ WorkspaceCreated
  /\ projects = EmptyTable
  /\ proj_members = << >>
  /\ tasks = EmptyTable
  /\ deps = {}

\* Project creations and project memberships in workspace 1.
NextProject ==
  \/ \E u \in Users, pm \in Users \cup {"none"}, ok \in BOOLEAN :
       ProjectCreate(1, u, pm, ok)
  \/ \E u \in Users, pm \in Users \cup {"none"}, ok \in BOOLEAN :
       ProjectFullCleanSave(1, u, pm, ok)
  \/ \E u \in Users, p \in Projects, r \in {"member", "reviewer"} :
       ProjectMembershipCreate(u, p, r)
  \/ \E i \in 1..MaxProjectMembers, a \in BOOLEAN : ProjectMembershipSave(i, a)

SpecProject == InitProject /\ [][NextProject]_vars

\* Project p1 of u1 in workspace 1, no task yet.
InitProgress ==
  /\ WorkspaceCreated
  /\ projects = ("p1" :> NewProject(1, "u1", "none"))
  /\ proj_members = << LeadRow("u1", "p1") >>
  /\ tasks = EmptyTable
  /\ deps = {}

\* Task creations, completions and direct progress calls on p1.
NextProgress ==
  \/ \E u \in Users, a \in Users \cup {"none"} : TaskCreate("p1", u, a)
  \/ \E t \in Tasks, st \in {"todo", "completed"} : TaskSave(t, st, NowIn)
  \/ \E t \in Tasks : Task_soft_delete(t)
  \/ CalculateProgress("p1")
  \/ \E i \in 1..MaxProjectMembers, a \in BOOLEAN : ProjectMembershipSave(i, a)

SpecProgress == InitProgress /\ [][NextProgress]_vars

\* Projects of workspace 1 created by u1, their tasks, and their soft and
\* hard deletion.
NextProjectCount ==
  \/ \E ok \in BOOLEAN : ProjectCreate(1, "u1", "none", ok)
  \/ \E p \in Projects, a \in Users \cup {"none"} : TaskCreate(p, "u1", a)
  \/ \E p \in Projects : Project_soft_delete(p)
  \/ \E p \in Projects : ProjectDelete(p)

SpecProjectCount == InitProject /\ [][NextProjectCount]_vars

\* Organization o1 of u1 with u2 as a member, its trial subscription when the
\* catalog holds a FREE plan, and at most as many workspaces as the limit
\* allows: none, or one created by u1.
InitRace ==
  /\ plans \in {{"starter"}, {"free", "starter"}}
  /\ orgs = ("o1" :> [owner |-> "u1", status |-> "active", deleted |-> FALSE,
                      settings |-> "default", slug |-> slugify(OrgNameIn("o1"))])
  /\ subs = IF "free" \in plans THEN << TrialSubscription("o1") >> ELSE << >>
  /\ org_members = (<<"u1", "o1">> :> OwnerRow)
                     @@ (<<"u2", "o1">> :> [role |-> "member", is_active |-> TRUE])
  /\ \/ workspaces = EmptyTable /\ ws_members = EmptyTable
     \/ /\ workspaces = (1 :> [organization |-> "o1", created_by |-> "u1",
                               is_private |-> FALSE, deleted |-> FALSE,
                               status |-> "active", member_count |-> 1,
                               project_count |-> 0, settings |-> "default",
                               slug |-> slugify(WorkspaceNameIn)])
        /\ ws_members = (<<"u1", 1>> :> [role |-> "admin", is_active |-> TRUE])
  /\ projects = EmptyTable
  /\ tasks = EmptyTable
  /\ deps = {}
  /\ proj_members = << >>
  /\ inflight = EmptyTable
  /\ last = NoCall

\* The two requests, interleaved in any order.
NextRace ==
  \/ \E r \in Requests, u \in Users, b \in BOOLEAN :
       WorkspaceRequestValidate(r, "o1", u, b)
  \/ \E r \in Requests : WorkspaceRequestSave(r)

SpecRace == InitRace /\ [][NextRace]_vars

\* Names whose slugs collide: "A" and "a 1" slugify to "a" and "a-1", the
\* second being what a second "A" is disambiguated to; "!" slugifies to the
\* empty slug.
Names == {<<"A">>, <<"a", " ", "1">>, <<"!">>}

SlugOrgs == {"o1", "o2", "o3"}

\* Organizations are created in the order o1, o2, o3.
NextSlugOrg(o) ==
  /\ o \notin DOMAIN orgs
  /\ (o = "o2" => "o1" \in DOMAIN orgs)
  /\ (o = "o3" => "o2" \in DOMAIN orgs)

\* Organizations and workspaces created by u1 under any of the names,
\* starting from the empty database.
NextSlug ==
  \/ \E o \in SlugOrgs, name \in Names :
       NextSlugOrg(o) /\ OrganizationCreate(o, "u1", "empty", name)
  \/ \E o \in {"o1", "o2"}, name \in Names : WorkspaceCreate(o, "u1", FALSE, name)

SpecSlug == Init /\ [][NextSlug]_vars

\* ------------------------------------------------------------ Properties

\* The user holds an OrganizationMembership row of o with is_active set.
IsActiveOrgMember(u, o) ==
  \E k \in DOMAIN org_members : k = <<u, o>> /\ org_members[k].is_active

\* The user holds a WorkspaceMembership row of w with is_active set.
IsActiveWsMember(u, w) ==
  \E k \in DOMAIN ws_members : k = <<u, w>> /\ ws_members[k].is_active

WsMembershipWrites == {"WsMembershipCreate", "WsMembershipSave", "add_member"}

\* C1, as stated: after a WorkspaceMembership save or add_member for a user
\* without an active OrganizationMembership in the workspace's organization,
\* the call has raised ValidationError and no WorkspaceMembership row exists
\* for that (user, workspace) pair.
C1_RejectedAndNoRow ==
  (last.op \in WsMembershipWrites /\ ~IsActiveOrgMember(last.user, last.org))
    => /\ last.result = "ValidationError"
       /\ <<last.user, last.ws>> \notin DOMAIN ws_members

\* C1, amended: such a call always raises ValidationError and writes nothing:
\* the WorkspaceMembership table and the workspace's cached count are as they
\* were before the call (a row stored earlier stays).
C1_RejectedAndNothingWritten ==
  [][(last'.op \in WsMembershipWrites
        /\ ~IsActiveOrgMember(last'.user, last'.org))
       => /\ last'.result = "ValidationError"
          /\ ws_members' = ws_members
          /\ workspaces' = workspaces]_vars

\* C1 witness: a direct creation for a user outside the organization was
\* rejected, and the pair has no row.
C1_Witness ==
  /\ last.op = "WsMembershipCreate"
  /\ last.result = "ValidationError"
  /\ ~IsActiveOrgMember(last.user, last.org)
  /\ <<last.user, last.ws>> \notin DOMAIN ws_members

\* C2, as stated: in every reachable state every active WorkspaceMembership
\* belongs to a user with an active OrganizationMembership in the workspace's
\* organization.
C2_ActiveWsMemberIsOrgMember ==
  \A k \in DOMAIN ws_members :
    ws_members[k].is_active
      => IsActiveOrgMember(k[1], workspaces[k[2]].organization)

\* C2, amended: whenever a WorkspaceMembership row is created or changed and is
\* active afterwards, its user holds an active OrganizationMembership in the
\* workspace's organization at that moment.
C2_ActiveWriteNeedsOrgMember ==
  [][\A k \in DOMAIN ws_members' :
       (/\ ws_members'[k].is_active
        /\ (k \notin DOMAIN ws_members \/ ws_members'[k] # ws_members[k]))
         => \E m \in DOMAIN org_members' :
              /\ m = <<k[1], workspaces'[k[2]].organization>>
              /\ org_members'[m].is_active]_vars

\* C2 witness: a second user was added to the workspace as an active member.
C2_Witness ==
  /\ last.op \in {"WsMembershipCreate", "add_member"}
  /\ last.result = "ok"
  /\ last.user = "u2"
  /\ IsActiveWsMember("u2", last.ws)

\* The access rule of section 4.4 for workspace w and user u.
AccessRule(w, u) ==
  LET o == workspaces[w].organization
  IN /\ IsActiveOrgMember(u, o)
     /\ \/ org_members[<<u, o>>].role \in {"owner", "admin"}
        \/ ~workspaces[w].is_private
        \/ IsActiveWsMember(u, w)

\* C5: can_user_access denies without an active OrganizationMembership, allows
\* organization owners and admins, and otherwise allows iff the workspace is
\* public or the user is an active workspace member; Project.can_user_access
\* returns its workspace's answer.
C5_AccessRule ==
  /\ \A w \in DOMAIN workspaces, u \in Users :
       can_user_access(org_members, workspaces, ws_members, w, u) <=> AccessRule(w, u)
  /\ \A p \in DOMAIN projects, u \in Users :
       Project_can_user_access(org_members, workspaces, ws_members, projects, p, u)
         <=> AccessRule(projects[p].workspace, u)

\* C5 witness: an active workspace member without an active
\* OrganizationMembership is denied.
C5_Witness ==
  \E u \in Users :
    /\ IsActiveWsMember(u, 1)
    /\ ~IsActiveOrgMember(u, workspaces[1].organization)
    /\ ~can_user_access(org_members, workspaces, ws_members, 1, u)
    /\ ~Project_can_user_access(org_members, workspaces, ws_members, projects, "p1", u)

\* C3: right after an organization is created, the owner has the one
\* OrganizationMembership row of that organization, active, with role OWNER.
C3_OwnerMembershipAfterCreate ==
  (last.op = "OrganizationCreate" /\ last.org \in DOMAIN orgs)
    => /\ <<last.user, last.org>> \in DOMAIN org_members
       /\ org_members[<<last.user, last.org>>].is_active
       /\ org_members[<<last.user, last.org>>].role = "owner"

\* C4: a workspace creation is rejected with the limit error exactly when the
\* organization's count of non-deleted workspaces has reached max_workspaces,
\* and a rejected creation leaves the count as it was.
C4_RejectedIffAtLimit ==
  [][last'.op \in {"WorkspaceCreate", "WorkspaceFullCleanSave"}
       => /\ (last'.result = "LimitExceeded")
               <=> (Cardinality({w \in DOMAIN workspaces :
                                   /\ workspaces[w].organization = last'.org
                                   /\ ~workspaces[w].deleted})
                      >= get_usage_limits(subs, last'.org).max_workspaces)
          /\ (last'.result = "LimitExceeded")
               => (WorkspaceCount(workspaces', last'.org)
                     = WorkspaceCount(workspaces, last'.org))]_vars

\* C6: creating a BLOCKS dependency T1 -> T2 while T2 is TODO and T1 is not
\* completed leaves T2 BLOCKED.
C6_BlocksEdgeBlocksTarget ==
  [][(/\ last'.op \in {"DependencyCreate", "DependencyFullCleanSave"}
      /\ last'.result = "ok"
      /\ last'.kind = "blocks"
      /\ tasks[last'.task2].status = "todo"
      /\ tasks[last'.task].status \notin {"completed", "verified"})
       => tasks'[last'.task2].status = "blocked"]_vars

\* C7: when T1 BLOCKS T2, T2 is BLOCKED and has no other unfinished blocker,
\* saving T1 as COMPLETED or VERIFIED leaves T2 TODO.
C7_CompletionUnblocks ==
  [][\A t2 \in DOMAIN tasks :
       (/\ last'.op = "TaskSave"
        /\ last'.kind \in {"completed", "verified"}
        /\ t2 # last'.task
        /\ <<last'.task, t2, "blocks">> \in deps
        /\ tasks[t2].status = "blocked"
        /\ ~tasks[t2].deleted
        /\ \A e \in deps :
             (e[2] = t2 /\ e[3] = "blocks" /\ e[1] # last'.task)
               => (tasks[e[1]].deleted \/ tasks[e[1]].status \in {"completed", "verified"}))
         => tasks'[t2].status = "todo"]_vars

\* The dependencies of t that hold it back: not deleted and not completed.
Unfinished(T, t) ==
  {d \in depends_on(deps, t) :
     ~T[d].deleted /\ T[d].status \notin {"completed", "verified"}}

\* C8, first sentence: is_blocked is the status test or an unfinished
\* dependency, and can_start is its negation.
C8_IsBlockedRule ==
  \A t \in DOMAIN tasks :
    /\ is_blocked(tasks, deps, t)
         <=> (tasks[t].status = "blocked" \/ Unfinished(tasks, t) # {})
    /\ can_start(tasks, deps, t) <=> ~is_blocked(tasks, deps, t)

\* A step on which is_blocked(t) goes from true to false.
TurnsFalse(t) == is_blocked(tasks, deps, t) /\ ~is_blocked(tasks', deps', t)

\* A task with two dependencies whose status is not BLOCKED around the step.
TwoDependencies(t) ==
  /\ Cardinality(depends_on(deps, t)) = 2
  /\ deps' = deps
  /\ tasks[t].status # "blocked"
  /\ tasks'[t].status # "blocked"

\* C8 as stated: for a task that is not BLOCKED and has two dependencies,
\* is_blocked turns false exactly on the step on which the last of the two
\* enters {COMPLETED, VERIFIED}.
C8_TurnsFalseOnLastCompletion ==
  /\ []C8_IsBlockedRule
  /\ [][\A t \in DOMAIN tasks :
          TwoDependencies(t)
            => (TurnsFalse(t)
                  <=> /\ \E d \in depends_on(deps, t) :
                           /\ tasks[d].status \notin {"completed", "verified"}
                           /\ tasks'[d].status \in {"completed", "verified"}
                      /\ \A x \in depends_on(deps, t) :
                           tasks'[x].status \in {"completed", "verified"})]_vars

\* C8, amended: is_blocked turns false exactly on the step on which the last
\* unfinished dependency is completed, verified or soft-deleted.
C8_TurnsFalseOnLastResolution ==
  /\ []C8_IsBlockedRule
  /\ [][\A t \in DOMAIN tasks :
          TwoDependencies(t)
            => (TurnsFalse(t)
                  <=> /\ Unfinished(tasks, t) # {}
                      /\ Unfinished(tasks', t) = {})]_vars

\* t1's last unfinished dependency was soft-deleted while still TODO, the other
\* one is completed, and t1 can start.
C8_Witness ==
  /\ last.op = "Task_soft_delete"
  /\ last.task \in depends_on(deps, "t1")
  /\ tasks[last.task].status = "todo"
  /\ \E d \in depends_on(deps, "t1") \ {last.task} :
       tasks[d].status = "completed" /\ ~tasks[d].deleted
  /\ tasks["t1"].status = "todo"
  /\ can_start(tasks, deps, "t1")

\* C9: a dependency of a task on itself, or between tasks of two projects, is
\* rejected with ValidationError, and neither a row nor a status changes.
C9_SelfAndCrossProjectRejected ==
  [][(/\ last'.op \in {"DependencyCreate", "DependencyFullCleanSave"}
      /\ \/ last'.task = last'.task2
         \/ tasks[last'.task].project # tasks[last'.task2].project)
       => /\ last'.result = "ValidationError"
          /\ deps' = deps
          /\ tasks' = tasks]_vars

\* The subscriptions of o that are ACTIVE or TRIALING, by position in the table.
CurrentCandidates(o) ==
  {i \in 1..Len(subs) : subs[i].org = o /\ subs[i].status \in {"active", "trialing"}}

\* C10: get_usage_limits returns the four ceilings of the plan of the first
\* ACTIVE or TRIALING subscription, and {1, 1, 0, 1} when there is none.
C10_UsageLimits ==
  \A o \in DOMAIN orgs :
    IF CurrentCandidates(o) = {}
      THEN get_usage_limits(subs, o)
             = [max_workspaces |-> 1, max_users |-> 1, max_storage_gb |-> 0,
                max_projects_per_workspace |-> 1]
      ELSE \E i \in CurrentCandidates(o) :
             /\ \A j \in CurrentCandidates(o) : i <= j
             /\ get_usage_limits(subs, o) = PlanLimits[subs[i].plan]

\* An organization whose first subscription is cancelled and whose second one is
\* current, next to an organization without any subscription.
C10_Witness ==
  /\ \E o \in DOMAIN orgs, i, j \in 1..Len(subs) :
       /\ i < j
       /\ subs[i].org = o /\ subs[j].org = o
       /\ subs[i].status = "cancelled"
       /\ subs[j].status \in {"active", "trialing"}
       /\ subs[i].plan # subs[j].plan
       /\ get_usage_limits(subs, o) = PlanLimits[subs[j].plan]
  /\ \E o \in DOMAIN orgs :
       /\ \A i \in 1..Len(subs) : subs[i].org # o
       /\ get_usage_limits(subs, o).max_workspaces = 1

\* C11: calculate_progress_percentage called again on a project, with no task
\* change in between, returns the value of the first call and writes nothing.
C11_ProgressIdempotent ==
  [][(/\ last.op = "calculate_progress_percentage"
      /\ last'.op = "calculate_progress_percentage"
      /\ last'.project = last.project)
       => /\ last'.value = last.value
          /\ ~last'.wrote
          /\ projects' = projects]_vars

\* The second of two calls in a row, after a first one that had to correct a
\* stale cache to one completed task out of two.
C11_Witness ==
  /\ last.op = "calculate_progress_percentage"
  /\ last.kind = "after_write"
  /\ ~last.wrote
  /\ last.value = 50
  /\ projects[last.project].progress_percentage = 50

\* C12: an organization created while the catalog holds a FREE plan has
\* afterwards a TRIALING subscription on the FREE plan with a trial window of
\* 14 days, and non-empty settings.
C12_TrialSubscriptionAfterCreate ==
  (last.op = "OrganizationCreate" /\ "free" \in plans /\ last.org \in DOMAIN orgs)
    => /\ \E i \in 1..Len(subs) :
            /\ subs[i].org = last.org
            /\ subs[i].plan = "free"
            /\ subs[i].status = "trialing"
            /\ subs[i].trial_days = 14
       /\ orgs[last.org].settings # "empty"

\* C13: an organization created while the catalog holds no FREE plan is
\* stored without a subscription, with its owner as active OWNER member and
\* with settings that are not empty.
C13_CreateWithoutFreePlan ==
  (last.op = "OrganizationCreate" /\ "free" \notin plans)
    => /\ last.result = "ok"
       /\ last.org \in DOMAIN orgs
       /\ \A i \in 1..Len(subs) : subs[i].org # last.org
       /\ <<last.user, last.org>> \in DOMAIN org_members
       /\ org_members[<<last.user, last.org>>].is_active
       /\ org_members[<<last.user, last.org>>].role = "owner"
       /\ orgs[last.org].settings # "empty"

\* The second organization was just created without a FREE plan in the
\* catalog, and got the default settings and no subscription.
C13_Witness ==
  /\ last.op = "OrganizationCreate"
  /\ last.result = "ok"
  /\ "free" \notin plans
  /\ last.org = "o2"
  /\ orgs["o2"].settings = "default"
  /\ <<last.user, "o2">> \in DOMAIN org_members
  /\ subs = << >>

\* C14: right after a workspace was created successfully, its creator holds an
\* active WorkspaceMembership in it with role ADMIN, and the cached member_count
\* is at least 1.
C14_CreatorIsAdmin ==
  (last.op \in {"WorkspaceCreate", "WorkspaceFullCleanSave"} /\ last.result = "ok")
    => /\ <<last.user, last.ws>> \in DOMAIN ws_members
       /\ ws_members[<<last.user, last.ws>>].is_active
       /\ ws_members[<<last.user, last.ws>>].role = "admin"
       /\ workspaces[last.ws].member_count >= 1

\* A second workspace of o1 was just created by its owner.
C14_Witness ==
  /\ last.op = "WorkspaceCreate"
  /\ last.result = "ok"
  /\ last.ws = 2
  /\ last.user = "u1"
  /\ workspaces[2].member_count = 1
  /\ ws_members[<<"u1", 2>>].role = "admin"

\* C15: a workspace creation by a user without an active OrganizationMembership
\* in the organization is rejected, and afterwards neither the workspace nor a
\* WorkspaceMembership for it is stored.
C15_RejectedCreationLeavesNothing ==
  (/\ last.op \in {"WorkspaceCreate", "WorkspaceFullCleanSave"}
   /\ ~IsActiveOrgMember(last.user, last.org))
    => /\ last.result # "ok"
       /\ last.ws \notin DOMAIN workspaces
       /\ \A k \in DOMAIN ws_members : k[2] # last.ws

\* C16: right after a project was created, its creator holds an active
\* ProjectMembership with role LEAD, and so does a project manager who is set
\* and is not the creator.
C16_CreatorAndManagerLead ==
  (last.op \in {"ProjectCreate", "ProjectFullCleanSave"} /\ last.result = "ok")
    => \A u \in {last.user, projects[last.project].project_manager} \ {"none"} :
         \E i \in 1..Len(proj_members) :
           /\ proj_members[i].user = u
           /\ proj_members[i].project = last.project
           /\ proj_members[i].role = "lead"
           /\ proj_members[i].is_active

\* A project was just created by u1 with u2 as project manager: two lead rows.
C16_Witness ==
  /\ last.op = "ProjectCreate"
  /\ last.result = "ok"
  /\ last.user = "u1"
  /\ projects[last.project].project_manager = "u2"
  /\ \E i, j \in 1..Len(proj_members) :
       /\ proj_members[i] = [user |-> "u1", project |-> last.project,
                             role |-> "lead", is_active |-> TRUE]
       /\ proj_members[j] = [user |-> "u2", project |-> last.project,
                             role |-> "lead", is_active |-> TRUE]

\* C17: a project creation is rejected whenever the workspace already holds
\* max_projects_per_workspace non-deleted projects, and whenever start_date is
\* after due_date; a rejection changes no project, membership or project_count.
C17_ProjectCreationRejected ==
  [][(/\ last'.op \in {"ProjectCreate", "ProjectFullCleanSave"}
      /\ \/ Cardinality({p \in DOMAIN projects :
                           projects[p].workspace = last'.ws /\ ~projects[p].deleted})
              >= get_usage_limits(subs, workspaces[last'.ws].organization)
                   .max_projects_per_workspace
         \/ last'.kind = "start_after_due")
       => /\ last'.result # "ok"
          /\ projects' = projects
          /\ proj_members' = proj_members
          /\ workspaces' = workspaces]_vars

\* C18: a task creation is never rejected, and afterwards the creator and the
\* assignee (when one is set) each hold an active ProjectMembership on the
\* task's project, whatever membership rows they had before.
C18_TaskCreationAddsMembers ==
  (last.op = "TaskCreate")
    => /\ last.result = "ok"
       /\ last.task \in DOMAIN tasks
       /\ \A u \in {last.user, last.kind} \ {"none"} :
            \E i \in 1..Len(proj_members) :
              /\ proj_members[i].user = u
              /\ proj_members[i].project = last.project
              /\ proj_members[i].is_active

\* C19: two concurrent workspace creations against one organization leave its
\* number of non-deleted workspaces at most one above max_workspaces.
C19_RaceExceedsByAtMostOne ==
  Cardinality({w \in DOMAIN workspaces :
                 workspaces[w].organization = "o1" /\ ~workspaces[w].deleted})
    <= get_usage_limits(subs, "o1").max_workspaces + 1

\* Membership creations, the three kinds.
MembershipCreates == {"OrgMembershipCreate", "WsMembershipCreate", "ProjectMembershipCreate"}

\* The call just made tried to create a membership whose pair was stored before.
DuplicateAttempt ==
  /\ last'.op \in MembershipCreates
  /\ last'.op = "OrgMembershipCreate" => <<last'.user, last'.org>> \in DOMAIN org_members
  /\ last'.op = "WsMembershipCreate" => <<last'.user, last'.ws>> \in DOMAIN ws_members
  /\ last'.op = "ProjectMembershipCreate"
       => \E i \in 1..Len(proj_members) :
            /\ proj_members[i].user = last'.user
            /\ proj_members[i].project = last'.project

\* No two ProjectMembership rows share (user, project); the other two tables
\* are keyed by their pair.
OneRowPerPair ==
  \A i, j \in 1..Len(proj_members) :
    (/\ proj_members[i].user = proj_members[j].user
     /\ proj_members[i].project = proj_members[j].project) => i = j

\* C20 as stated: at most one membership row per pair, and an attempt to create
\* a duplicate fails with an integrity conflict and changes no membership row.
C20_DuplicateIsIntegrityError ==
  /\ []OneRowPerPair
  /\ [][DuplicateAttempt
          => /\ last'.result = "IntegrityError"
             /\ UNCHANGED <<org_members, ws_members, proj_members>>]_vars

\* C20, amended: the duplicate fails with an integrity conflict, or, for a
\* WorkspaceMembership of a user without an active OrganizationMembership, with
\* the ValidationError that save() raises before the insert; no membership row
\* changes.
C20_DuplicateIsRejected ==
  /\ []OneRowPerPair
  /\ [][DuplicateAttempt
          => /\ IF /\ last'.op = "WsMembershipCreate"
                   /\ ~IsActiveOrgMember(last'.user, last'.org)
                  THEN last'.result = "ValidationError"
                  ELSE last'.result = "IntegrityError"
             /\ UNCHANGED <<org_members, ws_members, proj_members>>]_vars

\* A second ProjectMembership for u1 on p1 was refused with a different role,
\* and the lead row is still the only one of the pair.
C20_Witness ==
  /\ last.op = "ProjectMembershipCreate"
  /\ last.result = "IntegrityError"
  /\ last.user = "u1"
  /\ last.kind = "reviewer"
  /\ \E i \in 1..Len(proj_members) :
       proj_members[i] = [user |-> "u1", project |-> "p1", role |-> "lead",
                          is_active |-> TRUE]
  /\ <<"u2", 1>> \in DOMAIN ws_members

IsOrgOwnerOrAdmin(u, o) ==
  \E k \in DOMAIN org_members :
    /\ k = <<u, o>>
    /\ org_members[k].is_active
    /\ org_members[k].role \in {"owner", "admin"}

\* C22: reading effective_role of a workspace membership returns "admin"
\* when its user is an active OWNER or ADMIN of the workspace's organization
\* and the stored role otherwise, and leaves every membership row as it was.
C22_EffectiveRole ==
  [][last'.op = "effective_role" =>
       /\ ws_members' = ws_members
       /\ org_members' = org_members
       /\ last'.result =
            IF IsOrgOwnerOrAdmin(last'.user, workspaces[last'.ws].organization)
              THEN "admin"
              ELSE ws_members[<<last'.user, last'.ws>>].role]_vars

\* An organization admin whose stored workspace role is "member" was read as
\* "admin", and the stored role is still "member".
C22_Witness ==
  /\ last.op = "effective_role"
  /\ last.result = "admin"
  /\ ws_members[<<last.user, last.ws>>].role = "member"
  /\ IsOrgOwnerOrAdmin(last.user, last.org)

\* v is an integer nearest to 100 * c / t.
NearestPercent(v, c, t) ==
  LET diff == 100 * c - v * t
  IN 2 * (IF diff < 0 THEN -diff ELSE diff) <= t

\* The cached progress of p is what its live tasks give.
ProgressUpToDate(p) ==
  LET active == {t \in DOMAIN tasks : tasks[t].project = p /\ ~tasks[t].deleted}
      done == {t \in active : tasks[t].status \in {"completed", "verified"}}
  IN IF active = {}
       THEN projects[p].progress_percentage = 0
       ELSE NearestPercent(projects[p].progress_percentage,
                           Cardinality(done), Cardinality(active))

\* C23: after every save of an existing task (a status change or a
\* soft-delete) the cached progress_percentage of its project is the rounded
\* share of completed tasks among the non-deleted ones, 0 when there is no
\* non-deleted task, and lies in 0..100.
C23_ProgressAfterUpdate ==
  last.op \in {"TaskSave", "Task_soft_delete"} =>
    /\ ProgressUpToDate(tasks[last.task].project)
    /\ projects[tasks[last.task].project].progress_percentage \in 0..100

\* C24: a save of task X changes the status of another task Y only from
\* BLOCKED to TODO, and only when X is one of Y's dependencies and none of
\* Y's non-deleted dependencies is left outside {COMPLETED, VERIFIED}; in
\* particular a task with another unfinished dependency, or one that does
\* not depend on X directly, keeps its status.
C24_UnblockOnlyDirectAndResolved ==
  [][\A y \in DOMAIN tasks :
       (/\ last'.op \in {"TaskSave", "Task_soft_delete"}
        /\ y # last'.task
        /\ tasks'[y].status # tasks[y].status)
         => /\ tasks[y].status = "blocked"
            /\ tasks'[y].status = "todo"
            /\ last'.task \in depends_on(deps, y)
            /\ Unfinished(tasks', y) = {}]_vars

\* X was saved as COMPLETED while a BLOCKED task depending on it has another
\* unfinished dependency, and that task is still BLOCKED.
C24_Witness ==
  /\ last.op = "TaskSave"
  /\ last.kind = "completed"
  /\ \E y \in DOMAIN tasks :
       /\ y # last.task
       /\ tasks[y].status = "blocked"
       /\ last.task \in depends_on(deps, y)
       /\ Unfinished(tasks, y) \ {last.task} # {}

\* C25: in the chain t1 blocks t2 blocks t3 with t2 and t3 BLOCKED, once t1
\* is completed t2 eventually becomes TODO, and once t2 is completed as well
\* t3 eventually becomes TODO.
C25_ChainUnblocks ==
  /\ (tasks["t1"].status \in {"completed", "verified"} /\ ~tasks["t1"].deleted)
       ~> (tasks["t2"].status # "blocked" \/ tasks["t2"].deleted
             \/ tasks["t1"].status \notin {"completed", "verified"})
  /\ (/\ tasks["t1"].status \in {"completed", "verified"}
      /\ tasks["t2"].status \in {"completed", "verified"})
       ~> (tasks["t3"].status # "blocked" \/ tasks["t3"].deleted)

\* C26: creating a dependency row of a type other than BLOCKS changes no
\* task's status and no task's is_blocked or can_start.
C26_OnlyBlocksAffectsScheduling ==
  [][(/\ last'.op \in {"DependencyCreate", "DependencyFullCleanSave"}
      /\ last'.kind # "blocks")
       => \A t \in DOMAIN tasks :
            /\ tasks'[t].status = tasks[t].status
            /\ is_blocked(tasks', deps', t) = is_blocked(tasks, deps, t)
            /\ can_start(tasks', deps', t) = can_start(tasks, deps, t)]_vars

\* C27: add_member for a user with an active OrganizationMembership in the
\* workspace's organization succeeds, whatever the organization role and
\* whether the workspace is private or public, and leaves the pair's
\* WorkspaceMembership active.
C27_AddMemberAcceptsOrgMembers ==
  (last.op = "add_member" /\ IsActiveOrgMember(last.user, last.org))
    => /\ last.result = "ok"
       /\ IsActiveWsMember(last.user, last.ws)

\* C28: after every workspace-membership operation the workspace's cached
\* member_count is the number of its active WorkspaceMemberships.
C28_MemberCountIsLive ==
  \A w \in DOMAIN workspaces :
    workspaces[w].member_count =
      Cardinality({k \in DOMAIN ws_members : k[2] = w /\ ws_members[k].is_active})

\* C29: after every project creation, soft-deletion and deletion the
\* workspace's cached project_count is the number of its non-deleted
\* projects.
C29_ProjectCountIsLive ==
  \A w \in DOMAIN workspaces :
    workspaces[w].project_count =
      Cardinality({p \in DOMAIN projects :
                     projects[p].workspace = w /\ ~projects[p].deleted})

\* C30: a save of a task sets started_at to the time of the save when the
\* status is IN_PROGRESS and started_at is unset, sets completed_at likewise
\* for COMPLETED or VERIFIED, and leaves a timestamp that is set as it is,
\* whatever the status becomes; every task whose status is COMPLETED or
\* VERIFIED has completed_at set.
C30_Timestamps ==
  /\ [](\A t \in DOMAIN tasks :
          tasks[t].status \in {"completed", "verified"} => tasks[t].completed_at # 0)
  /\ [][\A t \in DOMAIN tasks :
          /\ tasks[t].started_at # 0 => tasks'[t].started_at = tasks[t].started_at
          /\ tasks[t].completed_at # 0 => tasks'[t].completed_at = tasks[t].completed_at
          /\ (last'.op = "TaskSave" /\ last'.task = t /\ tasks[t].started_at = 0)
               => tasks'[t].started_at =
                    IF last'.kind = "in_progress" THEN last'.value ELSE 0
          /\ (last'.op = "TaskSave" /\ last'.task = t /\ tasks[t].completed_at = 0)
               => tasks'[t].completed_at =
                    IF last'.kind \in {"completed", "verified"} THEN last'.value ELSE 0]_vars

\* A task started at time 1, completed at time 2 and reopened at time 3
\* keeps both timestamps.
C30_Witness ==
  \E t \in DOMAIN tasks :
    /\ last.op = "TaskSave" /\ last.task = t /\ last.value = 3
    /\ tasks[t].status = "todo"
    /\ tasks[t].started_at = 1
    /\ tasks[t].completed_at = 2

\* The tasks reachable from the tasks of S along dependency rows.
RECURSIVE ReachableFrom(_)
ReachableFrom(S) ==
  LET next == S \cup {e[2] : e \in {d \in deps : d[1] \in S}}
  IN IF next = S THEN S ELSE ReachableFrom(next)

\* C31: after any sequence of validated dependency creations within a
\* project the dependency graph has no cycle: no task is reachable from
\* itself along dependency rows.
C31_NoCycle ==
  \A t \in DOMAIN tasks :
    t \notin ReachableFrom({e[2] : e \in {d \in deps : d[1] = t}})

\* C32: every organization has at most one subscription whose status is
\* ACTIVE or TRIALING.
C32_OneCurrentSubscription ==
  \A o \in DOMAIN orgs : Cardinality(CurrentCandidates(o)) <= 1

\* C33: deleting a task, or a project with tasks, succeeds and leaves no
\* task row and no dependency row of the deleted tasks.
C33_DeleteRemovesEdges ==
  /\ last.op = "TaskDelete" =>
       /\ last.result = "ok"
       /\ last.task \notin DOMAIN tasks
       /\ \A e \in deps : e[1] # last.task /\ e[2] # last.task
  /\ last.op = "ProjectDelete" =>
       /\ last.result = "ok"
       /\ \A t \in DOMAIN tasks : tasks[t].project # last.project
       /\ \A e \in deps : e[1] \in DOMAIN tasks /\ e[2] \in DOMAIN tasks

\* C34: Project.soft_delete leaves the project deleted with status ARCHIVED
\* and every task of the project deleted, changes nothing else of those
\* tasks, and changes no task of another project.
C34_SoftDeleteCascades ==
  [][last'.op = "Project_soft_delete" =>
       /\ projects'[last'.project].deleted
       /\ projects'[last'.project].status = "archived"
       /\ DOMAIN tasks' = DOMAIN tasks
       /\ \A t \in DOMAIN tasks :
            IF tasks[t].project = last'.project
              THEN tasks'[t] = [tasks[t] EXCEPT !.deleted = TRUE]
              ELSE tasks'[t] = tasks[t]]_vars

\* A project with a task was soft-deleted while the other project has a live
\* task: the first task is deleted, the second is not.
C34_Witness ==
  /\ last.op = "Project_soft_delete"
  /\ projects[last.project].deleted
  /\ \E t \in DOMAIN tasks : tasks[t].project = last.project /\ tasks[t].deleted
  /\ \E t \in DOMAIN tasks : tasks[t].project # last.project /\ ~tasks[t].deleted

C36_CascadeAllOrNothing ==
  [][(/\ last'.op \in {"TaskCreate", "TaskSave", "DependencyCreate",
                       "DependencyFullCleanSave"}
      /\ last'.result # "ok")
       => /\ tasks' = tasks
          /\ deps' = deps
          /\ projects' = projects
          /\ proj_members' = proj_members]_vars


\* C37: with an unchanged plan, a workspace creation, a Workspace.soft_delete
\* or a Workspace.restore never takes the organization's number of non-deleted
\* workspaces from within its resolved max_workspaces to above it.
C37_WorkspacesWithinLimit ==
  [][(/\ last'.op \in {"WorkspaceCreate", "WorkspaceFullCleanSave",
                       "Workspace_soft_delete", "Workspace_restore"}
      /\ get_usage_limits(subs', "o1") = get_usage_limits(subs, "o1")
      /\ WorkspaceCount(workspaces, "o1")
           <= get_usage_limits(subs, "o1").max_workspaces)
       => WorkspaceCount(workspaces', "o1")
            <= get_usage_limits(subs', "o1").max_workspaces]_vars


\* C38: the soft-delete mark and the status stay in sync: every organization
\* with deleted_at set has status CANCELLED and every workspace with
\* deleted_at set has status ARCHIVED.
C38_DeletedNeverActive ==
  /\ \A o \in DOMAIN orgs : orgs[o].deleted => orgs[o].status = "cancelled"
  /\ \A w \in DOMAIN workspaces :
       workspaces[w].deleted => workspaces[w].status = "archived"

====
